---- MODULE Spec2Model ----
(***************************************************************************)
(* clinvoice: the sequence index (src/src/index.rs), the invoice workflow  *)
(* that owns it (src/src/generate.rs) and the ledger scan                  *)
(* (src/src/data.rs).                                                      *)
(*                                                                         *)
(* Strings are sequences of one-character strings, so formatting, joining  *)
(* and splitting are computed as the code computes them.  A file is a      *)
(* sequence of lines.  The file system has inodes, one directory with the  *)
(* two names the index uses, and one advisory lock per inode.             *)
(***************************************************************************)
EXTENDS Integers, Sequences, FiniteSets, TLC

VARIABLES
    files,      \* inode table: files[i] is the content (lines) of inode i
    dirent,     \* the directory: name -> inode (0 = no such name)
    flock,      \* flock[i] = process holding the exclusive lock of inode i, 0 = free
    pc,         \* position of each process in its run
    idx,        \* the Index value of each process
    args,       \* the command line of each process
    io,         \* progress of each process inside save()
    ret,        \* the sequence number each run obtained (-1 = none)
    hist,       \* the most recent Index calls of the library client
    calls,      \* number of Index calls the library client made
    ghost,      \* bookkeeping: what was saved, rendered, committed
    ledger,     \* the scan of the ledger directory (TimeData::new)
    parse,      \* a call of a parsing function: its argument and its result
    agg         \* the aggregation of the invoice totals in generate::run

vars == <<files, dirent, flock, pc, idx, args, io, ret, hist, calls, ghost, ledger, parse, agg>>

----------------------------------------------------------------------------
(* Bounds *)

\* u32 is modelled with KeyBits bits: the sequence numbers are 0 .. U32Max
KeyBits == 4
NumProcs == 3
MaxCalls == 3
HistLen == 3

U32Mod == 2 ^ KeyBits
U32Max == U32Mod - 1
Procs == 1 .. NumProcs

----------------------------------------------------------------------------
(* Strings *)

\* the characters that occur, in byte order
Alphabet ==
    <<" ", "$", "*", "+", ",", "-", ".", "0", "1", "2", "3", "4", "5", "6", "7", "8", "9",
      ":", "=", "h", "x">>

Code(c) == CHOOSE i \in 1 .. Len(Alphabet) : Alphabet[i] = c

IsDigit(c) == Code(c) >= Code("0") /\ Code(c) <= Code("9")

DigitVal(c) == Code(c) - Code("0")

\* byte-wise lexicographic order of String (Ord for String)
RECURSIVE StrLess(_, _)
StrLess(a, b) ==
    IF b = <<>> THEN FALSE
    ELSE IF a = <<>> THEN TRUE
    ELSE IF Code(Head(a)) < Code(Head(b)) THEN TRUE
    ELSE IF Code(Head(a)) > Code(Head(b)) THEN FALSE
    ELSE StrLess(Tail(a), Tail(b))

\* Vec<String>::sort (insertion of the head into the sorted tail)
RECURSIVE InsertSorted(_, _)
InsertSorted(s, v) ==
    IF v = <<>> THEN <<s>>
    ELSE IF StrLess(Head(v), s) THEN <<Head(v)>> \o InsertSorted(s, Tail(v))
    ELSE <<s>> \o v

RECURSIVE SortStrings(_)
SortStrings(v) == IF v = <<>> THEN <<>> ELSE InsertSorted(Head(v), SortStrings(Tail(v)))

\* Display for u32
RECURSIVE FormatU32(_)
FormatU32(n) ==
    IF n < 10 THEN <<Alphabet[Code("0") + n]>>
    ELSE FormatU32(n \div 10) \o <<Alphabet[Code("0") + (n % 10)]>>

\* the digits of a decimal number, most significant first
RECURSIVE DigitsValue(_, _)
DigitsValue(s, acc) ==
    IF s = <<>> THEN acc
    ELSE IF acc * 10 + DigitVal(Head(s)) > U32Max THEN -1
    ELSE DigitsValue(Tail(s), acc * 10 + DigitVal(Head(s)))

\* str::parse::<u32>: an optional '+', then one or more digits, no overflow; -1 = Err
ParseU32(s) ==
    LET body == IF s # <<>> /\ Head(s) = "+" THEN Tail(s) ELSE s
    IN  IF body = <<>> THEN -1
        ELSE IF \E i \in 1 .. Len(body) : ~IsDigit(body[i]) THEN -1
        ELSE DigitsValue(body, 0)

\* [String]::join(" ")
RECURSIVE JoinSpace(_)
JoinSpace(v) ==
    IF v = <<>> THEN <<>>
    ELSE IF Len(v) = 1 THEN Head(v)
    ELSE Head(v) \o <<" ">> \o JoinSpace(Tail(v))

\* str::splitn(2, ' '): one part when the line has no space, else two
Splitn2(line) ==
    IF \E i \in 1 .. Len(line) : line[i] = " "
    THEN LET i == CHOOSE j \in 1 .. Len(line) :
                      line[j] = " " /\ \A k \in 1 .. j - 1 : line[k] # " "
         IN  <<SubSeq(line, 1, i - 1), SubSeq(line, i + 1, Len(line))>>
    ELSE <<line>>

\* str::split_whitespace: the maximal runs of non-space characters
RECURSIVE SplitWhitespace(_, _)
SplitWhitespace(s, cur) ==
    IF s = <<>> THEN (IF cur = <<>> THEN <<>> ELSE <<cur>>)
    ELSE IF Head(s) = " "
         THEN (IF cur = <<>> THEN <<>> ELSE <<cur>>) \o SplitWhitespace(Tail(s), <<>>)
         ELSE SplitWhitespace(Tail(s), Append(cur, Head(s)))

----------------------------------------------------------------------------
(* The HashMap<u32, Vec<String>> of an Index.                              *)
(* A HashMap fixes no iteration order.  The order is the same from one     *)
(* iteration to the next while no new key is inserted, and an insert of a  *)
(* new key may change it in any way.  The map is kept as its entries       *)
(* together with what the iterations so far have shown of the order:       *)
(* <<a, b>> \in before says that key a is visited before key b.            *)

EmptyMap == [entries |-> {}, before |-> {}]

Keys(m) == {e.k : e \in m.entries}

Lookup(m, k) == (CHOOSE e \in m.entries : e.k = k).d

\* the mapping as a set of <<key, dates>> pairs
MapOf(m) == {<<e.k, e.d>> : e \in m.entries}

SetMax(S) == CHOOSE x \in S : \A y \in S : y <= x

SetMin(S) == CHOOSE x \in S : \A y \in S : x <= y

RECURSIVE TransitiveClosure(_)
TransitiveClosure(R) ==
    LET R2 == R \cup UNION {{<<x[1], y[2]>> : y \in {z \in R : z[1] = x[2]}} : x \in R}
    IN  IF R2 = R THEN R ELSE TransitiveClosure(R2)

\* HashMap::insert
MapInsert(m, k, d) ==
    IF k \in Keys(m)
    THEN [m EXCEPT !.entries = {e \in @ : e.k # k} \cup {[k |-> k, d |-> d]}]
    ELSE [entries |-> m.entries \cup {[k |-> k, d |-> d]}, before |-> {}]

----------------------------------------------------------------------------
(* Index (src/src/index.rs) *)

\* the date lists a caller passes: date-argument tokens "24" and "24.1"
Tok1 == <<"2", "4">>
Tok2 == <<"2", "4", ".", "1">>
DateLists == {<<>>, <<Tok1>>, <<Tok2>>, <<Tok1, Tok2>>, <<Tok2, Tok1>>}

\* the sequence numbers a caller requests explicitly
RequestedSeqs == {1, U32Max}

\* the loop body, had a sequence number kept the dates of its first line
LoadLineKeepFirst(acc, line) ==
    LET parts == Splitn2(line)
    IN  IF Len(parts) = 2
        THEN LET sequence == ParseU32(parts[1])
             IN  IF sequence # -1 /\ \A e \in acc : e.k # sequence
                 THEN acc \cup {[k |-> sequence, d |-> SplitWhitespace(parts[2], <<>>)]}
                 ELSE acc
        ELSE acc

\* Index::load, the body of the loop: the entries after one more line
LoadLine(acc, line) ==
    LET parts == Splitn2(line)
    IN  IF Len(parts) = 2
        THEN LET sequence == ParseU32(parts[1])
             IN  IF sequence # -1
                 THEN {e \in acc : e.k # sequence}
                          \cup {[k |-> sequence, d |-> SplitWhitespace(parts[2], <<>>)]}
                 ELSE acc
        ELSE acc

RECURSIVE LoadEntries(_, _)
LoadEntries(lines, acc) ==
    IF lines = <<>> THEN acc ELSE LoadEntries(Tail(lines), LoadLine(acc, Head(lines)))

\* Index::load
Load(lines) == [entries |-> LoadEntries(lines, {}), before |-> {}]

\* the line written for one entry, had the format string no space
SaveLineJoined(k, d) == FormatU32(k) \o JoinSpace(d)

\* Index::save, the line written for one entry
SaveLine(k, d) == FormatU32(k) \o <<" ">> \o JoinSpace(d)

\* Index::save, the lines in the order written: sorted by sequence number
RECURSIVE SaveLinesOf(_, _)
SaveLinesOf(m, ks) ==
    IF ks = {} THEN <<>>
    ELSE LET k == SetMin(ks)
         IN  <<SaveLine(k, Lookup(m, k))>> \o SaveLinesOf(m, ks \ {k})

SaveLines(m) == SaveLinesOf(m, Keys(m))

\* add_sequence, had it kept the list a key already holds
AddSequenceKeep(m, sequence, dates) ==
    {[ret |-> sequence,
      m |-> IF sequence \in Keys(m) THEN m ELSE MapInsert(m, sequence, dates),
      panic |-> FALSE]}

\* Index::add_sequence
AddSequence(m, sequence, dates) ==
    {[ret |-> sequence, m |-> MapInsert(m, sequence, dates), panic |-> FALSE]}

\* Index::find_sequence, the search loop: the keys whose sorted dates equal
\* the sorted input
Matches(m, sorted_input_dates) ==
    {e.k : e \in {x \in m.entries : SortStrings(x.d) = sorted_input_dates}}

\* Index::find_sequence, the search loop returns at the first match the
\* iteration visits: any match that no other match is known to precede
FirstMatches(m, sorted_input_dates) ==
    LET M == Matches(m, sorted_input_dates)
    IN  {f \in M : \A x \in M : <<x, f>> \notin m.before}

\* the map after an iteration has returned f as the first of the matches M
Observed(m, f, M) ==
    [m EXCEPT !.before = TransitiveClosure(@ \cup {<<f, x>> : x \in M \ {f}})]

\* the new number, had find_sequence taken the largest key as it is
NextSeqNoIncrement(m) ==
    IF m.entries = {} THEN {1} ELSE {SetMax(Keys(m))}

\* Index::find_sequence, `max_seq + 1` on u32: a build with overflow checks
\* panics (-1), a build without them wraps
NextSeq(m) ==
    IF m.entries = {} THEN {1}
    ELSE IF SetMax(Keys(m)) = U32Max THEN {-1, (U32Max + 1) % U32Mod}
    ELSE {SetMax(Keys(m)) + 1}

\* Index::find_sequence: the outcomes
FindSequence(m, dates) ==
    LET sorted_input_dates == SortStrings(dates)
        M == Matches(m, sorted_input_dates)
    IN  IF M # {}
        THEN {[ret |-> f, m |-> Observed(m, f, M), panic |-> FALSE] :
                  f \in FirstMatches(m, sorted_input_dates)}
        ELSE {IF seq = -1
              THEN [ret |-> -1, m |-> m, panic |-> TRUE]
              ELSE [ret |-> seq, m |-> MapInsert(m, seq, sorted_input_dates), panic |-> FALSE] :
              seq \in NextSeq(m)}

----------------------------------------------------------------------------
(* State of a process and of the file system *)

Client == 1

NoIndex == [m |-> EmptyMap, lock_file |-> 0]

NoIo == [temp_file |-> 0, lines |-> <<>>, pos |-> 0]

NoArgs == [dates |-> <<>>, sequence_option |-> -1, output |-> "-"]

\* no ledger scan is in progress
NoLedger == [phase |-> "off"]

\* no parsing function is being called
NoParse == [phase |-> "off"]

\* no aggregation is in progress
NoAgg == [phase |-> "off"]

\* a call of the library client, as kept in hist
Call(op, sequence, dates, r, pre, post) ==
    [op |-> op, sequence |-> sequence, dates |-> dates, ret |-> r, pre |-> pre, post |-> post]

Remember(h, c) == IF Len(h) < HistLen THEN Append(h, c) ELSE Append(Tail(h), c)

\* Drop for Index: unlock the locked file
Unlock(fl, p) == [i \in 1 .. Len(fl) |-> IF fl[i] = p THEN 0 ELSE fl[i]]

\* a write of one line at line offset pos; a gap left by a truncation reads as empty lines
WriteAt(content, pos, line) ==
    [i \in 1 .. (IF pos + 1 > Len(content) THEN pos + 1 ELSE Len(content)) |->
        IF i = pos + 1 THEN line
        ELSE IF i <= Len(content) THEN content[i]
        ELSE <<>>]

\* the processes that own an Index: Index::new has returned, drop has not run
Holders == {p \in Procs : pc[p] \in {"ready", "assigned", "rendered", "save_create", "save_write", "saved"}}

InitFs ==
    /\ files = <<>>
    /\ dirent = [index |-> 0, tmp |-> 0]
    /\ flock = <<>>
    /\ idx = [p \in Procs |-> NoIndex]
    /\ io = [p \in Procs |-> NoIo]
    /\ ret = [p \in Procs |-> -1]
    /\ hist = <<>>
    /\ calls = 0
    /\ ghost = [saved |-> {}, hasSaved |-> FALSE, fresh |-> FALSE, committed |-> {<<>>},
                registered |-> {},
                saveCalled |-> [p \in Procs |-> FALSE],
                didSave |-> [p \in Procs |-> FALSE],
                rendered |-> [p \in Procs |-> FALSE]]

----------------------------------------------------------------------------
(* Index::new, step by step *)

\* OpenOptions::open with create(true), truncate(false)
Open(p) ==
    /\ pc[p] = "start"
    /\ IF dirent.index = 0
       THEN /\ files' = Append(files, <<>>)
            /\ flock' = Append(flock, 0)
            /\ dirent' = [dirent EXCEPT !.index = Len(files) + 1]
       ELSE UNCHANGED <<files, flock, dirent>>
    /\ idx' = [idx EXCEPT ![p] = [m |-> EmptyMap, lock_file |-> dirent'.index]]
    /\ pc' = [pc EXCEPT ![p] = "locking"]
    /\ UNCHANGED <<args, io, ret, hist, calls, ghost, ledger, parse, agg>>

\* file.lock_exclusive(): blocks while another open file holds the lock of this inode
Lock(p) ==
    /\ pc[p] = "locking"
    /\ flock[idx[p].lock_file] = 0
    /\ flock' = [flock EXCEPT ![idx[p].lock_file] = p]
    /\ pc' = [pc EXCEPT ![p] = "loading"]
    /\ UNCHANGED <<files, dirent, idx, args, io, ret, hist, calls, ghost, ledger, parse, agg>>

\* index.load(): reads the file the path names now; Index::new returns
LoadIndex(p) ==
    /\ pc[p] = "loading"
    /\ idx' = [idx EXCEPT ![p].m = Load(files[dirent.index])]
    /\ pc' = [pc EXCEPT ![p] = "ready"]
    /\ hist' = IF p = Client THEN <<>> ELSE hist
    /\ ghost' = [ghost EXCEPT !.fresh = IF p = Client THEN TRUE ELSE @,
                              !.registered = IF p = Client THEN {} ELSE @]
    /\ UNCHANGED <<files, dirent, flock, args, io, ret, calls, ledger, parse, agg>>

\* index.load() returns Err (File::open or the read of a line fails): the
\* Index built at index.rs:42 is dropped, Index::new returns Err and the
\* caller's expect ends the run
LoadError(p) ==
    /\ pc[p] = "loading"
    /\ pc' = [pc EXCEPT ![p] = "done"]
    /\ flock' = Unlock(flock, p)
    /\ idx' = [idx EXCEPT ![p] = NoIndex]
    /\ UNCHANGED <<files, dirent, args, io, ret, hist, calls, ghost, ledger, parse, agg>>

----------------------------------------------------------------------------
(* Index::save, step by step *)

\* File::create(&temp_path): creates the file or truncates the existing one
SaveCreate(p) ==
    /\ pc[p] = "save_create"
    /\ IF dirent.tmp = 0
       THEN /\ files' = Append(files, <<>>)
            /\ flock' = Append(flock, 0)
            /\ dirent' = [dirent EXCEPT !.tmp = Len(files) + 1]
       ELSE /\ files' = [files EXCEPT ![dirent.tmp] = <<>>]
            /\ UNCHANGED <<flock, dirent>>
    /\ io' = [io EXCEPT ![p] = [temp_file |-> dirent'.tmp, lines |-> SaveLines(idx[p].m), pos |-> 0]]
    /\ ghost' = [ghost EXCEPT !.committed = @ \cup {SaveLines(idx[p].m)}]
    /\ pc' = [pc EXCEPT ![p] = "save_write"]
    /\ UNCHANGED <<idx, args, ret, hist, calls, ledger, parse, agg>>

\* writeln!(temp_file, ...) for the next entry
SaveWrite(p) ==
    /\ pc[p] = "save_write"
    /\ io[p].pos < Len(io[p].lines)
    /\ files' = [files EXCEPT ![io[p].temp_file] = WriteAt(@, io[p].pos, io[p].lines[io[p].pos + 1])]
    /\ io' = [io EXCEPT ![p].pos = @ + 1]
    /\ UNCHANGED <<dirent, flock, pc, idx, args, ret, hist, calls, ghost, ledger, parse, agg>>

\* fs::rename(&temp_path, &self.file_path); Err when the temporary name is gone
SaveRename(p) ==
    /\ pc[p] = "save_write"
    /\ io[p].pos = Len(io[p].lines)
    /\ IF dirent.tmp # 0
       THEN /\ dirent' = [index |-> dirent.tmp, tmp |-> 0]
            /\ pc' = [pc EXCEPT ![p] = "saved"]
            /\ ghost' = [ghost EXCEPT !.didSave[p] = TRUE,
                                      !.saved = IF p = Client THEN MapOf(idx[p].m) ELSE @,
                                      !.hasSaved = IF p = Client THEN TRUE ELSE @]
            /\ UNCHANGED <<flock, idx>>
       ELSE /\ pc' = [pc EXCEPT ![p] = "done"]
            /\ flock' = Unlock(flock, p)
            /\ idx' = [idx EXCEPT ![p] = NoIndex]
            /\ UNCHANGED <<dirent, ghost>>
    /\ io' = [io EXCEPT ![p] = NoIo]
    /\ UNCHANGED <<files, args, ret, hist, calls, ledger, parse, agg>>

\* the error path of save, had it left the lock as it is
SaveErrorKeepsLock(p) ==
    /\ pc[p] \in {"save_create", "save_write"}
    /\ pc' = [pc EXCEPT ![p] = "done"]
    /\ idx' = [idx EXCEPT ![p] = NoIndex]
    /\ io' = [io EXCEPT ![p] = NoIo]
    /\ UNCHANGED <<files, dirent, flock, args, ret, hist, calls, ghost, ledger, parse, agg>>

\* an I/O error in File::create or writeln!: save returns Err, the caller
\* unwraps it, the Index is dropped while unwinding
SaveError(p) ==
    /\ pc[p] \in {"save_create", "save_write"}
    /\ pc' = [pc EXCEPT ![p] = "done"]
    /\ flock' = Unlock(flock, p)
    /\ idx' = [idx EXCEPT ![p] = NoIndex]
    /\ io' = [io EXCEPT ![p] = NoIo]
    /\ UNCHANGED <<files, dirent, args, ret, hist, calls, ghost, ledger, parse, agg>>

----------------------------------------------------------------------------
(* generate::run, one process per invocation *)

\* the command lines: every run has its own date arguments
RunDates(p) == IF p = 1 THEN <<Tok1>> ELSE IF p = 2 THEN <<Tok2>> ELSE <<Tok1, Tok2>> \o [i \in 1 .. p - 3 |-> Tok1]

RunArgs(p) ==
    {[dates |-> RunDates(p), sequence_option |-> s, output |-> o] :
        s \in {-1, U32Max}, o \in {"-", "file"}}

\* sequence_option: add_sequence when given, find_sequence otherwise
Assign(p) ==
    /\ pc[p] = "ready"
    /\ \E o \in (IF args[p].sequence_option # -1
                 THEN AddSequence(idx[p].m, args[p].sequence_option, args[p].dates)
                 ELSE FindSequence(idx[p].m, args[p].dates)) :
           IF o.panic
           THEN /\ pc' = [pc EXCEPT ![p] = "done"]
                /\ flock' = Unlock(flock, p)
                /\ idx' = [idx EXCEPT ![p] = NoIndex]
                /\ UNCHANGED ret
           ELSE /\ pc' = [pc EXCEPT ![p] = "assigned"]
                /\ idx' = [idx EXCEPT ![p].m = o.m]
                /\ ret' = [ret EXCEPT ![p] = o.ret]
                /\ UNCHANGED flock
    /\ UNCHANGED <<files, dirent, args, io, hist, calls, ghost, ledger, parse, agg>>

\* the ledger is loaded, the totals computed and the template rendered
Render(p) ==
    /\ pc[p] = "assigned"
    /\ pc' = [pc EXCEPT ![p] = "rendered"]
    /\ ghost' = [ghost EXCEPT !.rendered[p] = TRUE]
    /\ UNCHANGED <<files, dirent, flock, idx, args, io, ret, hist, calls, ledger, parse, agg>>

\* the workflow aborts between the assignment of the number and save():
\* process::exit(1) (invalid date argument, template errors) or a panic
\* (ledger not loaded, the assertion on the hours, output file not written).
\* A panic drops the Index while unwinding; process::exit runs no
\* destructor, the process ends and its open files are closed, which
\* releases the lock of the file
Abort(p) ==
    /\ pc[p] \in {"assigned", "rendered"}
    /\ pc' = [pc EXCEPT ![p] = "done"]
    /\ flock' = Unlock(flock, p)
    /\ idx' = [idx EXCEPT ![p] = NoIndex]
    /\ UNCHANGED <<files, dirent, args, io, ret, hist, calls, ghost, ledger, parse, agg>>

\* output "-": print and return; the Index is dropped
PrintAndReturn(p) ==
    /\ pc[p] = "rendered"
    /\ args[p].output = "-"
    /\ pc' = [pc EXCEPT ![p] = "done"]
    /\ flock' = Unlock(flock, p)
    /\ idx' = [idx EXCEPT ![p] = NoIndex]
    /\ UNCHANGED <<files, dirent, args, io, ret, hist, calls, ghost, ledger, parse, agg>>

\* any other output: the invoice is written, then index.save() is called
WriteOutput(p) ==
    /\ pc[p] = "rendered"
    /\ args[p].output # "-"
    /\ pc' = [pc EXCEPT ![p] = "save_create"]
    /\ ghost' = [ghost EXCEPT !.saveCalled[p] = TRUE]
    /\ UNCHANGED <<files, dirent, flock, idx, args, io, ret, hist, calls, ledger, parse, agg>>

\* the build command runs, run returns, the Index is dropped
Finish(p) ==
    /\ pc[p] = "saved"
    /\ pc' = [pc EXCEPT ![p] = "done"]
    /\ flock' = Unlock(flock, p)
    /\ idx' = [idx EXCEPT ![p] = NoIndex]
    /\ UNCHANGED <<files, dirent, args, io, ret, hist, calls, ghost, ledger, parse, agg>>

Init ==
    /\ InitFs
    /\ ledger = NoLedger
    /\ parse = NoParse
    /\ agg = NoAgg
    /\ pc = [p \in Procs |-> "start"]
    /\ args \in {a \in [Procs -> UNION {RunArgs(p) : p \in Procs}] : \A p \in Procs : a[p] \in RunArgs(p)}

\* the steps of the run of process p
Run(p) ==
    \/ Open(p)
    \/ Lock(p)
    \/ LoadIndex(p)
    \/ LoadError(p)
    \/ Assign(p)
    \/ Render(p)
    \/ Abort(p)
    \/ PrintAndReturn(p)
    \/ WriteOutput(p)
    \/ SaveCreate(p)
    \/ SaveWrite(p)
    \/ SaveRename(p)
    \/ SaveError(p)
    \/ Finish(p)

Next == \E p \in Procs : Run(p)

Spec == Init /\ [][Next]_vars

\* The runs under scheduling: a process that can take a step takes one.  A
\* process blocked in lock_exclusive can take none.  NumLive processes run,
\* the others do not exist; the first run may be given a sequence number.
NumLive == 2

InitLive ==
    /\ InitFs
    /\ ledger = NoLedger
    /\ parse = NoParse
    /\ agg = NoAgg
    /\ pc = [p \in Procs |-> IF p <= NumLive THEN "start" ELSE "off"]
    /\ args \in {a \in [Procs -> {NoArgs} \cup UNION {RunArgs(p) : p \in Procs}] :
                   \A p \in Procs :
                      IF p <= NumLive
                      THEN a[p] \in RunArgs(p) /\ (p > 1 => a[p].sequence_option = -1)
                      ELSE a[p] = NoArgs}

SpecLive == InitLive /\ [][Next]_vars /\ \A p \in Procs : WF_vars(Run(p))

----------------------------------------------------------------------------
(* A library client: one process that calls the Index API in any order,    *)
(* as the tests of the repository do                                       *)

ApiCall(outcomes, op, sequence, dates) ==
    /\ pc[Client] = "ready"
    /\ calls < MaxCalls
    /\ calls' = calls + 1
    /\ \E o \in outcomes :
           IF o.panic
           THEN /\ pc' = [pc EXCEPT ![Client] = "done"]
                /\ flock' = Unlock(flock, Client)
                /\ idx' = [idx EXCEPT ![Client] = NoIndex]
                /\ UNCHANGED <<ret, hist, ghost>>
           ELSE /\ idx' = [idx EXCEPT ![Client].m = o.m]
                /\ ret' = [ret EXCEPT ![Client] = o.ret]
                /\ hist' = Remember(hist, Call(op, sequence, dates, o.ret,
                                               MapOf(idx[Client].m), MapOf(o.m)))
                /\ ghost' = [ghost EXCEPT !.fresh = FALSE,
                                          !.registered = IF op = "find"
                                                         THEN @ \cup {<<SortStrings(dates), o.ret>>}
                                                         ELSE {r \in @ : r[2] # sequence}]
                /\ UNCHANGED <<pc, flock>>
    /\ UNCHANGED <<files, dirent, args, io, ledger, parse, agg>>

ApiAdd == \E s \in RequestedSeqs, d \in DateLists : ApiCall(AddSequence(idx[Client].m, s, d), "add", s, d)

ApiFind == \E d \in DateLists : ApiCall(FindSequence(idx[Client].m, d), "find", -1, d)

\* index.save() is called
ApiSave ==
    /\ pc[Client] = "ready"
    /\ calls < MaxCalls
    /\ calls' = calls + 1
    /\ pc' = [pc EXCEPT ![Client] = "save_create"]
    /\ ghost' = [ghost EXCEPT !.saveCalled[Client] = TRUE]
    /\ UNCHANGED <<files, dirent, flock, idx, args, io, ret, hist, ledger, parse, agg>>

\* index.save() has returned Ok
ApiSaved ==
    /\ pc[Client] = "saved"
    /\ pc' = [pc EXCEPT ![Client] = "ready"]
    /\ UNCHANGED <<files, dirent, flock, idx, args, io, ret, hist, calls, ghost, ledger, parse, agg>>

\* the Index goes out of scope
ApiDrop ==
    /\ pc[Client] = "ready"
    /\ pc' = [pc EXCEPT ![Client] = "done"]
    /\ flock' = Unlock(flock, Client)
    /\ idx' = [idx EXCEPT ![Client] = NoIndex]
    /\ UNCHANGED <<files, dirent, args, io, ret, hist, calls, ghost, ledger, parse, agg>>

\* the client opens the path again
ApiReopen ==
    /\ pc[Client] = "done"
    /\ pc' = [pc EXCEPT ![Client] = "start"]
    /\ UNCHANGED <<files, dirent, flock, idx, args, io, ret, hist, calls, ghost, ledger, parse, agg>>

\* the index files the client may find: none, or one that an earlier run saved
InitialFiles ==
    {<<>>,
     <<SaveLine(1, <<Tok1>>), SaveLine(2, <<Tok2>>)>>,
     <<SaveLine(2, <<Tok2, Tok1>>), SaveLine(U32Max, <<Tok1>>)>>}

InitApi ==
    /\ \E content \in InitialFiles :
           /\ files = IF content = <<>> THEN <<>> ELSE <<content>>
           /\ dirent = [index |-> IF content = <<>> THEN 0 ELSE 1, tmp |-> 0]
           /\ flock = IF content = <<>> THEN <<>> ELSE <<0>>
           /\ ghost = [saved |-> {}, hasSaved |-> FALSE, fresh |-> FALSE,
                       committed |-> {<<>>, content},
                       registered |-> {},
                       saveCalled |-> [p \in Procs |-> FALSE],
                       didSave |-> [p \in Procs |-> FALSE],
                       rendered |-> [p \in Procs |-> FALSE]]
    /\ idx = [p \in Procs |-> NoIndex]
    /\ io = [p \in Procs |-> NoIo]
    /\ ret = [p \in Procs |-> -1]
    /\ hist = <<>>
    /\ calls = 0
    /\ pc = [p \in Procs |-> IF p = Client THEN "start" ELSE "off"]
    /\ args = [p \in Procs |-> NoArgs]
    /\ ledger = NoLedger
    /\ parse = NoParse
    /\ agg = NoAgg

NextApi ==
    \/ Open(Client)
    \/ Lock(Client)
    \/ LoadIndex(Client)
    \/ ApiAdd
    \/ ApiFind
    \/ ApiSave
    \/ SaveCreate(Client)
    \/ SaveWrite(Client)
    \/ SaveRename(Client)
    \/ ApiSaved
    \/ ApiDrop
    \/ ApiReopen

SpecApi == InitApi /\ [][NextApi]_vars

----------------------------------------------------------------------------
(* Properties of the Index API, on the calls of the library client *)

Last == hist[Len(hist)]

Prev == hist[Len(hist) - 1]

Prev2 == hist[Len(hist) - 2]

SameDates(a, b) == SortStrings(a) = SortStrings(b)

KeysOf(mapping) == {q[1] : q \in mapping}

\* the sequence numbers under which a mapping holds a date set equal to dates
NumbersOf(mapping, dates) == {q[1] : q \in {r \in mapping : SameDates(r[2], dates)}}

\* C1: two successive find_sequence calls with the same date list (in any
\* order) return the same number, and the number find_sequence returns is
\* not the number it returned for another date set that is still registered
\* (a registration ends when add_sequence gives its number to another list)
C1_FindSequenceRoundTrip ==
    /\ (Len(hist) >= 2 /\ Last.op = "find" /\ Prev.op = "find" /\ SameDates(Last.dates, Prev.dates))
           => Last.ret = Prev.ret
    /\ (Len(hist) >= 1 /\ Last.op = "find")
           => \A r \in ghost.registered : r[1] # SortStrings(Last.dates) => r[2] # Last.ret

\* C7: find_sequence for a date set equal to no stored one returns 1 on an
\* empty index and the largest key plus one otherwise, and stores the date
\* set under that number
C7_AllocationRule ==
    (Len(hist) >= 1 /\ Last.op = "find" /\ NumbersOf(Last.pre, Last.dates) = {})
        => /\ Last.ret = IF Last.pre = {} THEN 1 ELSE SetMax(KeysOf(Last.pre)) + 1
           /\ Last.post = Last.pre \cup {<<Last.ret, SortStrings(Last.dates)>>}

\* C8 as stated: add_sequence(s, D) returns s and the find_sequence(D) that
\* follows returns s, in every index state
C8_AddThenFind ==
    (Len(hist) >= 2 /\ Prev.op = "add" /\ Last.op = "find" /\ Last.dates = Prev.dates)
        => Prev.ret = Prev.sequence /\ Last.ret = Prev.sequence

\* C8 amended: add_sequence(s, D) returns s and stores D under s; the
\* find_sequence(D) that follows returns a number that holds a date set equal
\* to D, which is s when no other number holds one
C8_AddThenFindAmended ==
    (Len(hist) >= 2 /\ Prev.op = "add" /\ Last.op = "find" /\ Last.dates = Prev.dates)
        => /\ Prev.ret = Prev.sequence
           /\ <<Prev.sequence, Prev.dates>> \in Prev.post
           /\ Last.ret \in NumbersOf(Prev.post, Prev.dates)
           /\ Last.post = Prev.post
           /\ NumbersOf(Prev.pre, Prev.dates) \subseteq {Prev.sequence} => Last.ret = Prev.sequence

\* add_sequence has replaced the list of a number in use and the
\* find_sequence after it returned that number
C8_Witness ==
    /\ Len(hist) >= 2 /\ Prev.op = "add" /\ Last.op = "find" /\ Last.dates = Prev.dates
    /\ Prev.pre # {}
    /\ Prev.sequence \in KeysOf(Prev.pre)
    /\ Last.ret = Prev.sequence

\* the last three calls are add_sequence(s, D2), find_sequence(D2) and
\* find_sequence(D1), where s held D1 before, D1 and D2 are different date
\* sets and no other number held D1
OverwriteCase ==
    /\ Len(hist) >= 3
    /\ Prev2.op = "add" /\ Prev.op = "find" /\ Last.op = "find"
    /\ Prev.dates = Prev2.dates
    /\ ~SameDates(Last.dates, Prev2.dates)
    /\ NumbersOf(Prev2.pre, Last.dates) = {Prev2.sequence}

Without(mapping, s) == {q \in mapping : q[1] # s}

\* C27: a find_sequence that finds a stored equal date set leaves the mapping
\* as it was; a find_sequence that allocates adds one pair under a key that
\* was not in use and changes no other pair; add_sequence(s, D) changes the
\* mapping at s only; no call removes a key.
C27_Frame ==
    Len(hist) >= 1 =>
      /\ (Last.op = "find" /\ NumbersOf(Last.pre, Last.dates) # {}) => Last.post = Last.pre
      /\ (Last.op = "find" /\ NumbersOf(Last.pre, Last.dates) = {})
            => /\ Last.ret \notin KeysOf(Last.pre)
               /\ Last.post = Last.pre \cup {<<Last.ret, SortStrings(Last.dates)>>}
      /\ Last.op = "add"
            => /\ Without(Last.post, Last.sequence) = Without(Last.pre, Last.sequence)
               /\ <<Last.sequence, Last.dates>> \in Last.post
      /\ KeysOf(Last.pre) \subseteq KeysOf(Last.post)

\* the same frame for the calls made while the largest key is below 2^32 - 1
C27_FrameBelowMax ==
    (Len(hist) >= 1 /\ (Last.pre = {} \/ SetMax(KeysOf(Last.pre) \cup {0}) < U32Max)) =>
      /\ (Last.op = "find" /\ NumbersOf(Last.pre, Last.dates) # {}) => Last.post = Last.pre
      /\ (Last.op = "find" /\ NumbersOf(Last.pre, Last.dates) = {})
            => /\ Last.ret \notin KeysOf(Last.pre)
               /\ Last.post = Last.pre \cup {<<Last.ret, SortStrings(Last.dates)>>}
      /\ Last.op = "add"
            => /\ Without(Last.post, Last.sequence) = Without(Last.pre, Last.sequence)
               /\ <<Last.sequence, Last.dates>> \in Last.post
      /\ KeysOf(Last.pre) \subseteq KeysOf(Last.post)

\* the numbers find_sequence(dates) can return on the client's index, over
\* the iteration orders of the HashMap
FindResults(dates) == {o.ret : o \in {x \in FindSequence(idx[Client].m, dates) : ~x.panic}}

\* two sequence numbers of the client's index hold equal date sets
HasDuplicates ==
    \E e1, e2 \in idx[Client].m.entries : e1.k # e2.k /\ SameDates(e1.d, e2.d)

\* C28: on every index the client can hold, also one with the same date set
\* under two sequence numbers, find_sequence(D) returns the same number in
\* every iteration order of the HashMap.
C28_FindDeterministic ==
    pc[Client] = "ready" => \A dates \in DateLists : Cardinality(FindResults(dates)) <= 1

\* find_sequence(D) returns the same number in every iteration order on an
\* index whose sequence numbers hold different date sets
C28_FindDeterministicWithoutDuplicates ==
    (pc[Client] = "ready" /\ ~HasDuplicates)
        => \A dates \in DateLists : Cardinality(FindResults(dates)) <= 1

\* C29: on every index of u32 keys, 2^32 - 1 among them or not, a
\* find_sequence for a date set equal to no stored one returns a number
\* above every key in use, which is not the wrapped sum 0, and leaves every
\* pair of the mapping in place.
C29_AllocationNoOverflow ==
    (Len(hist) >= 1 /\ Last.op = "find" /\ NumbersOf(Last.pre, Last.dates) = {})
        => /\ \A k \in KeysOf(Last.pre) : Last.ret > k
           /\ Last.ret # 0
           /\ Last.pre \subseteq Last.post

\* C5: an Index opened after save() holds the saved mapping, and
\* find_sequence finds every saved date set under a number it was saved
\* under without changing the mapping
C5_SaveReloadRoundTrip ==
    (pc[Client] = "ready" /\ ghost.fresh /\ ghost.hasSaved)
        => /\ MapOf(idx[Client].m) = ghost.saved
           /\ \A q \in ghost.saved : \A o \in FindSequence(idx[Client].m, q[2]) :
                  /\ ~o.panic
                  /\ o.ret \in NumbersOf(ghost.saved, q[2])
                  /\ MapOf(o.m) = ghost.saved

\* an index with a two-date list under a two-digit number and an empty
\* date list has been saved and opened again
C5_Witness ==
    /\ pc[Client] = "ready" /\ ghost.fresh /\ ghost.hasSaved
    /\ \E q \in ghost.saved : Len(q[2]) = 2 /\ q[1] >= 10
    /\ \E q \in ghost.saved : q[2] = <<>>

----------------------------------------------------------------------------
(* Properties of concurrent runs *)

\* C2: at most one process owns an Index of the path at a time
C2_MutualExclusion == Cardinality(Holders) <= 1

\* C3: runs that all use find_sequence with different date sets and all save
\* end with different numbers, and the file holds the mapping of each
C3_NoCollisionNoLostUpdate ==
    (\A p \in Procs : pc[p] = "done" /\ args[p].sequence_option = -1 /\ ghost.didSave[p])
        => /\ \A p, q \in Procs : p # q => ret[p] # ret[q]
           /\ \A p \in Procs : \E e \in LoadEntries(files[dirent.index], {}) :
                  e.k = ret[p] /\ SameDates(e.d, args[p].dates)

\* C4: the file the path names is always a complete serialization of an
\* index state, and the writes of save() go to a file the path does not name
C4_AtomicSave ==
    /\ dirent.index # 0 => files[dirent.index] \in ghost.committed
    /\ \A p \in Procs : pc[p] = "save_write" => io[p].temp_file # dirent.index

\* C6: a run that rendered its invoice has called save() when it ends
C6_SaveBeforeRelease ==
    \A p \in Procs : (pc[p] = "done" /\ ghost.rendered[p]) => ghost.saveCalled[p]


\* process p holds the lock of a file
HoldsLock(p) == \E i \in 1 .. Len(flock) : flock[i] = p

\* C22: a run that has ended holds no lock, whichever way it ended, and
\* every lock that is taken is released: from some point on no process
\* holds a lock
C22_LockReleased ==
    /\ [](\A p \in Procs : pc[p] = "done" => ~HoldsLock(p))
    /\ <>[](\A p \in Procs : ~HoldsLock(p))

\* a run has ended in an error of save() and holds no lock, and another
\* run has ended after it had loaded and assigned, without calling save()
C22_Witness ==
    \E p, q \in Procs :
        /\ p # q
        /\ pc[p] = "done" /\ ghost.saveCalled[p] /\ ~ghost.didSave[p] /\ ~HoldsLock(p)
        /\ pc[q] = "done" /\ ret[q] # -1 /\ ~ghost.saveCalled[q] /\ ~HoldsLock(q)

\* a process in Index::new whose file is open and whose lock is not yet granted
Waits(p) == pc[p] = "locking"

\* the lock has been granted to the process and its Index is not disposed
Owns(p) == pc[p] = "loading" \/ p \in Holders

\* every process that waits for the lock acquires it and Index::new returns,
\* with the Index or with the error of load
C25_WaitersAcquire == \A p \in Procs : Waits(p) ~> (pc[p] \in {"ready", "done"})

\* C25: when every holder disposes its Index, every process that waits in
\* Index::new acquires the lock and returns; and as long as a process has
\* not disposed its Index, no other process acquires the lock.
C25_LockLiveness ==
    /\ \A p \in Procs : Waits(p) ~> (pc[p] \in {"ready", "done"})
    /\ [][\A q \in Procs :
            (Waits(q) /\ pc'[q] = "loading") => \A p \in Procs \ {q} : ~Owns(p)]_vars

(***************************************************************************)
(* The ledger scan: TimeData::new (src/src/data.rs).  A directory holds   *)
(* files; a file is a sequence of lines; the scan visits the directory    *)
(* in the order read_dir yields it, which is unspecified.                 *)
(***************************************************************************)

\* the longest first ledger file of a directory
MaxLines == 3

\* Option::None of a date; dates are day numbers 1, 2, ...
None == 0

\* a line is kept by what its text holds: a date, "<time specs> = <text>",
\* the same with a '#' or "//" inside the text after '=', text without '=',
\* a line whose first characters after the white space are '#' or "//", or
\* white space only
DateLine(d) == [kind |-> "date", date |-> d]
EntryLine(specs) == [kind |-> "entry", specs |-> specs, description |-> "text"]
EntryLineWithComment(specs) ==
    [kind |-> "entry", specs |-> specs, description |-> "text # comment"]
TextLine == [kind |-> "text"]
CommentLine == [kind |-> "comment"]
BlankLine == [kind |-> "blank"]

\* an invalid time specification, e.g. "-1h" or "17-9"
BadSpec == -1

LineChoices ==
    {DateLine(1), DateLine(2), EntryLine(<<8>>), EntryLine(<<2, BadSpec>>), TextLine, BlankLine}

RECURSIVE FilesUpTo(_)
FilesUpTo(n) ==
    IF n = 0 THEN {<<>>}
    ELSE LET shorter == FilesUpTo(n - 1)
         IN  shorter \cup {Append(c, l) : c \in {x \in shorter : Len(x) = n - 1}, l \in LineChoices}

OtherFiles ==
    { <<EntryLine(<<8>>)>>,
      <<DateLine(1), EntryLine(<<2, 3>>)>>,
      <<BlankLine, DateLine(2), EntryLine(<<1>>), DateLine(1), EntryLine(<<4>>)>>,
      <<CommentLine, DateLine(2), CommentLine, EntryLineWithComment(<<5>>)>> }

\* line.trim().is_empty()
IsEmpty(line) == line.kind = "blank"

\* parse_date: Some(date) for a date line, None for any other
ParseDate(line) == IF line.kind = "date" THEN line.date ELSE None

RECURSIVE SumSpecs(_, _)
SumSpecs(specs, total) ==
    IF specs = <<>> THEN total
    ELSE IF Head(specs) < 0 THEN BadSpec
    ELSE SumSpecs(Tail(specs), total + Head(specs))

\* parse_entry: the total of the time specifications and the text after
\* '=', or Err (ok = FALSE) when '=' is missing or a specification is
\* invalid; what stands before the '=' of a comment line is no time
\* specification
ParseEntry(line) ==
    IF line.kind # "entry" THEN [ok |-> FALSE, hours |-> 0, description |-> ""]
    ELSE LET total == SumSpecs(line.specs, 0)
         IN  IF total = BadSpec THEN [ok |-> FALSE, hours |-> 0, description |-> ""]
             ELSE [ok |-> TRUE, hours |-> total, description |-> line.description]

\* the filter, had it compared the end with <
InRangeEndExcluded(date, start, end) ==
    (start = None \/ date >= start) /\ (end = None \/ date < end)

\* the start / end filter of TimeData::new
InRange(date, start, end) ==
    (start = None \/ date >= start) /\ (end = None \/ date <= end)

\* entries.entry(date).or_insert_with(Vec::new).push(entry)
PushEntry(entries, date, entry) ==
    IF date \in DOMAIN entries
    THEN [entries EXCEPT ![date] = Append(@, entry)]
    ELSE [d \in DOMAIN entries \cup {date} |->
            IF d = date THEN <<entry>> ELSE entries[d]]

\* a file of the directory is opened with its current date kept from the
\* file before
OpenFileKeepDate(l, f) ==
    [l EXCEPT !.phase = "file", !.file = f, !.pos = 0, !.todo = @ \ {f}]

\* a file of the directory is opened: no current date yet
OpenFile(l, f) ==
    [l EXCEPT !.phase = "file", !.file = f, !.pos = 0, !.todo = @ \ {f},
              !.current_date = None]

\* the loop body, had the Err arm stored an entry without hours
ScanLineErrStores(l, f, n) ==
    LET line == l.dir[f].content[n]
        date == ParseDate(line)
        parsed == ParseEntry(line)
        step == [l EXCEPT !.pos = n]
    IN  IF IsEmpty(line) THEN step
        ELSE IF date # None THEN [step EXCEPT !.current_date = date]
        ELSE IF l.current_date # None
        THEN IF InRange(l.current_date, l.start, l.end)
             THEN [step EXCEPT !.entries =
                     PushEntry(@, l.current_date,
                               [hours |-> parsed.hours,
                                     description |-> parsed.description,
                                     src |-> <<f, n>>])]
             ELSE step
        ELSE [step EXCEPT !.diagnostics = @ \cup {<<f, n, "date">>}]

\* the body of the loop over the lines, for line number n of file f
ScanLine(l, f, n) ==
    LET line == l.dir[f].content[n]
        date == ParseDate(line)
        parsed == ParseEntry(line)
        step == [l EXCEPT !.pos = n]
    IN  IF IsEmpty(line) THEN step
        ELSE IF date # None THEN [step EXCEPT !.current_date = date]
        ELSE IF l.current_date # None
        THEN IF parsed.ok
             THEN IF InRange(l.current_date, l.start, l.end)
                  THEN [step EXCEPT !.entries =
                          PushEntry(@, l.current_date,
                                    [hours |-> parsed.hours,
                                     description |-> parsed.description,
                                     src |-> <<f, n>>])]
                  ELSE step
             ELSE [step EXCEPT !.diagnostics = @ \cup {<<f, n, "entry">>}]
        ELSE [step EXCEPT !.diagnostics = @ \cup {<<f, n, "date">>}]

\* the directories scanned: two ledger files and one file
\* that is not a ledger
Directories ==
    {[f \in 1 .. 3 |->
        IF f = 1 THEN [cli |-> TRUE, content |-> a]
        ELSE IF f = 2 THEN [cli |-> TRUE, content |-> b]
        ELSE [cli |-> FALSE, content |-> <<DateLine(1), EntryLine(<<8>>)>>]]
     : a \in FilesUpTo(MaxLines), b \in OtherFiles}

\* the start / end arguments: no filter, one bound, or a range
Filters == {<<None, None>>, <<2, None>>, <<None, 1>>, <<1, 1>>, <<2, 2>>, <<1, 2>>}

InitLedger ==
    /\ InitFs
    /\ pc = [p \in Procs |-> "off"]
    /\ args = [p \in Procs |-> NoArgs]
    /\ parse = NoParse
    /\ agg = NoAgg
    /\ \E dir \in Directories, filter \in Filters :
         ledger = [phase |-> "dir", dir |-> dir,
                   start |-> filter[1], end |-> filter[2],
                   todo |-> DOMAIN dir, file |-> 0, pos |-> 0,
                   current_date |-> None, entries |-> <<>>, diagnostics |-> {}]

indexVars == <<files, dirent, flock, pc, idx, args, io, ret, hist, calls, ghost>>

\* read_dir yields a ledger file: it is read
LedgerOpenFile ==
    /\ ledger.phase = "dir"
    /\ \E f \in ledger.todo :
         /\ ledger.dir[f].cli
         /\ ledger' = OpenFile(ledger, f)
    /\ UNCHANGED <<indexVars, parse, agg>>

\* read_dir yields something that is no ".cli" file: it is passed over
LedgerSkip ==
    /\ ledger.phase = "dir"
    /\ \E f \in ledger.todo :
         /\ ~ledger.dir[f].cli
         /\ ledger' = [ledger EXCEPT !.todo = @ \ {f}]
    /\ UNCHANGED <<indexVars, parse, agg>>

\* the next line of the file is handled
LedgerLine ==
    /\ ledger.phase = "file"
    /\ ledger.pos < Len(ledger.dir[ledger.file].content)
    /\ ledger' = ScanLine(ledger, ledger.file, ledger.pos + 1)
    /\ UNCHANGED <<indexVars, parse, agg>>

\* the file has no more lines
LedgerEndOfFile ==
    /\ ledger.phase = "file"
    /\ ledger.pos = Len(ledger.dir[ledger.file].content)
    /\ ledger' = [ledger EXCEPT !.phase = "dir"]
    /\ UNCHANGED <<indexVars, parse, agg>>

\* the directory has no more entries: Ok(TimeData { entries })
LedgerDone ==
    /\ ledger.phase = "dir"
    /\ ledger.todo = {}
    /\ ledger' = [ledger EXCEPT !.phase = "done"]
    /\ UNCHANGED <<indexVars, parse, agg>>

NextLedger ==
    \/ LedgerOpenFile
    \/ LedgerSkip
    \/ LedgerLine
    \/ LedgerEndOfFile
    \/ LedgerDone

SpecLedger == InitLedger /\ [][NextLedger]_vars

\* the entries stored under a date, none when the date is no key
StoredUnder(d) == IF d \in DOMAIN ledger.entries THEN ledger.entries[d] ELSE <<>>

\* line n of ledger file f is an entry line that parses
IsParsedEntry(f, n) ==
    LET line == ledger.dir[f].content[n]
    IN  ~IsEmpty(line) /\ ParseDate(line) = None /\ ParseEntry(line).ok

\* the date of the nearest date line above line n of file f, None without one
PrecedingDate(f, n) ==
    LET above == {j \in 1 .. n - 1 : ParseDate(ledger.dir[f].content[j]) # None}
    IN  IF above = {} THEN None ELSE ParseDate(ledger.dir[f].content[SetMax(above)])

\* the places <<date, position>> at which the entry of line n of file f is stored
PlacesOf(f, n) ==
    {x \in {<<d, k>> : d \in DOMAIN ledger.entries, k \in 1 .. MaxLines + 5} :
        x[2] <= Len(ledger.entries[x[1]]) /\ ledger.entries[x[1]][x[2]].src = <<f, n>>}

LedgerFiles == {f \in DOMAIN ledger.dir : ledger.dir[f].cli}

\* C10: when the scan has returned, every stored entry comes from an entry
\* line that parses, of a ledger file, and is stored under the date of the
\* nearest date line above it in that file, with the hours of that line;
\* every entry line that parses and whose nearest date line above carries a
\* date within the start / end filter is stored exactly once, so a date
\* found in several files holds the entries of all of them; and two entries
\* of one date that come from one file stand in the order of their lines.
C10_PositionalDateAssociation ==
    ledger.phase = "done" =>
        /\ \A d \in DOMAIN ledger.entries : \A k \in 1 .. Len(ledger.entries[d]) :
             LET e == ledger.entries[d][k]
             IN  /\ e.src[1] \in LedgerFiles
                 /\ e.src[2] \in 1 .. Len(ledger.dir[e.src[1]].content)
                 /\ IsParsedEntry(e.src[1], e.src[2])
                 /\ PrecedingDate(e.src[1], e.src[2]) = d
                 /\ e.hours = ParseEntry(ledger.dir[e.src[1]].content[e.src[2]]).hours
        /\ \A f \in LedgerFiles : \A n \in 1 .. Len(ledger.dir[f].content) :
             (/\ IsParsedEntry(f, n)
              /\ PrecedingDate(f, n) # None
              /\ InRange(PrecedingDate(f, n), ledger.start, ledger.end))
             => Cardinality(PlacesOf(f, n)) = 1
        /\ \A d \in DOMAIN ledger.entries :
             \A k1, k2 \in 1 .. Len(ledger.entries[d]) :
                (k1 < k2 /\ ledger.entries[d][k1].src[1] = ledger.entries[d][k2].src[1])
                => ledger.entries[d][k1].src[2] < ledger.entries[d][k2].src[2]

\* a scan has returned in which one date holds two entries of one file and
\* an entry of another file, and a second date holds entries too
C10_Witness ==
    /\ ledger.phase = "done"
    /\ \E d \in DOMAIN ledger.entries :
         /\ \E k1, k2 \in 1 .. Len(ledger.entries[d]) :
              ledger.entries[d][k1].src[1] # ledger.entries[d][k2].src[1]
         /\ \E k1, k2 \in 1 .. Len(ledger.entries[d]) :
              /\ k1 # k2
              /\ ledger.entries[d][k1].src[1] = ledger.entries[d][k2].src[1]
    /\ Cardinality(DOMAIN ledger.entries) = 2

\* line n of ledger file f is an entry line that does not parse
IsMalformed(f, n) ==
    LET line == ledger.dir[f].content[n]
    IN  ~IsEmpty(line) /\ ParseDate(line) = None /\ ~ParseEntry(line).ok

\* the scan handles line n of the file it is in
HandlesLine(n) ==
    /\ ledger.phase = "file"
    /\ ledger'.phase = "file"
    /\ ledger'.pos = n
    /\ ledger.pos = n - 1

\* C11: a malformed entry line is not fatal and has no effect: the step of
\* the scan that handles it leaves the store and the current date as they
\* were and the scan goes on (so the lines before and after it are handled
\* as if it were absent), and when the scan has returned the line is in no
\* entry list
C11_MalformedLineSkipped ==
    /\ [][\A n \in 1 .. MaxLines + 5 :
            (HandlesLine(n) /\ IsMalformed(ledger.file, n))
            => /\ ledger'.entries = ledger.entries
               /\ ledger'.current_date = ledger.current_date
               /\ ledger'.todo = ledger.todo]_vars
    /\ [](ledger.phase = "done"
            => \A f \in LedgerFiles : \A n \in 1 .. Len(ledger.dir[f].content) :
                  IsMalformed(f, n) => PlacesOf(f, n) = {})

\* a scan has returned Ok in which a malformed line under a date was
\* reported and entry lines before and after it in its file are stored
\* under that date
C11_Witness ==
    /\ ledger.phase = "done"
    /\ \E f \in LedgerFiles : \E n \in 1 .. Len(ledger.dir[f].content) :
         /\ <<f, n, "entry">> \in ledger.diagnostics
         /\ \E d \in DOMAIN ledger.entries :
              /\ \E k \in 1 .. Len(ledger.entries[d]) :
                   ledger.entries[d][k].src[1] = f /\ ledger.entries[d][k].src[2] > n
              /\ PrecedingDate(f, n) = d

\* line n of ledger file f is empty after trimming or starts with '#' or "//"
IsFullLineComment(f, n) == ledger.dir[f].content[n].kind \in {"blank", "comment"}

\* line n of ledger file f is an entry line with a '#' or "//" in its text
HasTrailingComment(f, n) ==
    LET line == ledger.dir[f].content[n]
    IN  line.kind = "entry" /\ line.description = "text # comment"

\* C20: the step of the scan that handles a line which is empty or starts
\* with '#' or "//" stores no entry, reports nothing and leaves the current
\* date as it was; an entry line with a '#' or "//" after its content is
\* stored, under a date within the filter, with the comment in its
\* description.
C20_CommentFiltering ==
    /\ [][\A n \in 1 .. MaxLines + 5 :
            (HandlesLine(n) /\ IsFullLineComment(ledger.file, n))
            => /\ ledger'.entries = ledger.entries
               /\ ledger'.diagnostics = ledger.diagnostics
               /\ ledger'.current_date = ledger.current_date]_vars
    /\ [](ledger.phase = "done"
            => \A f \in LedgerFiles : \A n \in 1 .. Len(ledger.dir[f].content) :
                  (/\ HasTrailingComment(f, n)
                   /\ IsParsedEntry(f, n)
                   /\ PrecedingDate(f, n) # None
                   /\ InRange(PrecedingDate(f, n), ledger.start, ledger.end))
                  => \E x \in PlacesOf(f, n) :
                        ledger.entries[x[1]][x[2]].description = "text # comment")

\* The same without the reports: a full-line comment stores no entry and
\* leaves the current date, and an entry with a trailing comment is stored
\* with it.
C20_CommentsStoreNothing ==
    /\ [][\A n \in 1 .. MaxLines + 5 :
            (HandlesLine(n) /\ IsFullLineComment(ledger.file, n))
            => /\ ledger'.entries = ledger.entries
               /\ ledger'.current_date = ledger.current_date]_vars
    /\ [](ledger.phase = "done"
            => \A f \in LedgerFiles : \A n \in 1 .. Len(ledger.dir[f].content) :
                  (/\ HasTrailingComment(f, n)
                   /\ IsParsedEntry(f, n)
                   /\ PrecedingDate(f, n) # None
                   /\ InRange(PrecedingDate(f, n), ledger.start, ledger.end))
                  => \E x \in PlacesOf(f, n) :
                        ledger.entries[x[1]][x[2]].description = "text # comment")

\* line n of ledger file f reaches the parser, is no date and has no date
\* line above it in its file
IsBeforeFirstDate(f, n) ==
    LET line == ledger.dir[f].content[n]
    IN  ~IsEmpty(line) /\ ParseDate(line) = None /\ PrecedingDate(f, n) = None

\* C23: a file is opened with no current date; the step of the scan that
\* handles a line that is no date and stands before the first date line of
\* its file stores nothing and reports "expected date" for it, and when the
\* scan has returned no such line is stored under any date, whatever the
\* files scanned before it held.
C23_CurrentDatePerFile ==
    /\ [](ledger.phase = "file" /\ ledger.pos = 0 => ledger.current_date = None)
    /\ [][\A n \in 1 .. MaxLines + 5 :
            (HandlesLine(n) /\ IsBeforeFirstDate(ledger.file, n))
            => /\ ledger'.entries = ledger.entries
               /\ ledger'.current_date = None
               /\ <<ledger.file, n, "date">> \in ledger'.diagnostics]_vars
    /\ [](ledger.phase = "done"
            => \A f \in LedgerFiles : \A n \in 1 .. Len(ledger.dir[f].content) :
                  IsBeforeFirstDate(f, n)
                  => PlacesOf(f, n) = {} /\ <<f, n, "date">> \in ledger.diagnostics)

\* the first line of a file is an entry line that parses; it has been
\* reported and not stored, after a file that ends under a date in the
\* filter has been scanned and has entries in the store
C23_Witness ==
    /\ ledger.phase = "file" /\ ledger.pos = 1
    /\ IsParsedEntry(ledger.file, 1)
    /\ <<ledger.file, 1, "date">> \in ledger.diagnostics
    /\ PlacesOf(ledger.file, 1) = {}
    /\ ledger.current_date = None
    /\ \E g \in LedgerFiles \ (ledger.todo \cup {ledger.file}) :
          LET last == Len(ledger.dir[g].content)
          IN  /\ last > 0
              /\ PrecedingDate(g, last) # None
              /\ PlacesOf(g, last) # {}

\* DateSelector: an ordered collection of ranges; selected(date) is true
\* iff the selector is empty or a range of it covers the date
Selected(selector, date) ==
    \/ selector = <<>>
    \/ \E i \in 1 .. Len(selector) : selector[i].start <= date /\ date <= selector[i].end

\* the selector that the start / end arguments of TimeData::new stand for:
\* the empty one for no bounds, the one range for two bounds
SelectorOf(start, end) ==
    IF start = None /\ end = None THEN <<>> ELSE <<[start |-> start, end |-> end]>>

RECURSIVE DecimalValue(_, _)
DecimalValue(s, acc) ==
    IF s = <<>> THEN acc ELSE DecimalValue(Tail(s), acc * 10 + DigitVal(Head(s)))

AllDigits(s) == s # <<>> /\ \A i \in 1 .. Len(s) : IsDigit(s[i])

\* str::parse::<i32>: an optional sign, then one or more digits
ParseI32(s) ==
    LET signed == s # <<>> /\ Head(s) \in {"+", "-"}
        body == IF signed THEN Tail(s) ELSE s
    IN  IF ~AllDigits(body) THEN [ok |-> FALSE, v |-> 0]
        ELSE [ok |-> TRUE,
              v |-> IF signed /\ Head(s) = "-" THEN 0 - DecimalValue(body, 0)
                    ELSE DecimalValue(body, 0)]

\* str::parse::<u32> without the width: an optional '+', then digits
ParseUnsigned(s) ==
    LET body == IF s # <<>> /\ Head(s) = "+" THEN Tail(s) ELSE s
    IN  IF ~AllDigits(body) THEN [ok |-> FALSE, v |-> 0]
        ELSE [ok |-> TRUE, v |-> DecimalValue(body, 0)]

\* str::split(c): the parts between the occurrences of c
RECURSIVE Split(_, _, _)
Split(s, c, cur) ==
    IF s = <<>> THEN <<cur>>
    ELSE IF Head(s) = c THEN <<cur>> \o Split(Tail(s), c, <<>>)
    ELSE Split(Tail(s), c, Append(cur, Head(s)))

Contains(s, c) == \E i \in 1 .. Len(s) : s[i] = c

\* str::split_once(c): the text before and after the first c (when Contains)
SplitOnce(s, c) ==
    LET i == CHOOSE j \in 1 .. Len(s) : s[j] = c /\ \A k \in 1 .. j - 1 : s[k] # c
    IN  <<SubSeq(s, 1, i - 1), SubSeq(s, i + 1, Len(s))>>

\* [String]::join(c)
RECURSIVE Join(_, _)
Join(v, c) ==
    IF v = <<>> THEN <<>>
    ELSE IF Len(v) = 1 THEN Head(v)
    ELSE Head(v) \o <<c>> \o Join(Tail(v), c)

IsLeapYear(y) == (y % 4 = 0 /\ y % 100 # 0) \/ y % 400 = 0

DaysInMonth(y, m) ==
    IF m = 2 THEN (IF IsLeapYear(y) THEN 29 ELSE 28)
    ELSE IF m \in {4, 6, 9, 11} THEN 30
    ELSE 31

NoDate == [year |-> 0, month |-> 0, day |-> 0]

\* NaiveDate::from_ymd_opt
FromYmdOpt(y, m, d) ==
    IF m \in 1 .. 12 /\ d >= 1 /\ d <= DaysInMonth(y, m)
    THEN [ok |-> TRUE, date |-> [year |-> y, month |-> m, day |-> d]]
    ELSE [ok |-> FALSE, date |-> NoDate]

\* NaiveDate::pred_opt: the day before
PredOpt(date) ==
    IF date.day > 1 THEN [date EXCEPT !.day = @ - 1]
    ELSE IF date.month > 1
    THEN [year |-> date.year, month |-> date.month - 1,
          day |-> DaysInMonth(date.year, date.month - 1)]
    ELSE [year |-> date.year - 1, month |-> 12, day |-> 31]

\* Ord for NaiveDate
DateKey(date) == date.year * 10000 + date.month * 100 + date.day

DateAfter(a, b) == DateKey(a) > DateKey(b)

\* the last day, had the month after been taken in every case
LastDayOfMonthNoDecember(year, month) ==
    LET first == FromYmdOpt(year, month + 1, 1)
    IN  IF first.ok THEN [panic |-> FALSE, date |-> PredOpt(first.date)]
        ELSE [panic |-> TRUE, date |-> NoDate]

\* last_day_of_month; panic where from_ymd_opt(..).unwrap() meets None
LastDayOfMonth(year, month) ==
    IF month = 12
    THEN LET last == FromYmdOpt(year, 12, 31)
         IN  [panic |-> ~last.ok, date |-> last.date]
    ELSE LET first == FromYmdOpt(year, month + 1, 1)
         IN  IF first.ok THEN [panic |-> FALSE, date |-> PredOpt(first.date)]
             ELSE [panic |-> TRUE, date |-> NoDate]

\* Ok(DateRange { start, end }) and Err(message)
OkRange(start, end) ==
    [ok |-> TRUE, panic |-> FALSE, err |-> "", start |-> start, end |-> end]

ErrRange(message) ==
    [ok |-> FALSE, panic |-> FALSE, err |-> message, start |-> NoDate, end |-> NoDate]

PanicRange == [ok |-> FALSE, panic |-> TRUE, err |-> "", start |-> NoDate, end |-> NoDate]

\* parse_specifier_to_range
ParseSpecifierToRange(spec) ==
    LET parts == Split(spec, ".", <<>>)
        year == ParseI32(parts[1])
    IN  IF Len(parts) = 1
        THEN IF ~year.ok THEN ErrRange("Invalid year")
             ELSE LET start == FromYmdOpt(year.v, 1, 1)
                      end == FromYmdOpt(year.v, 12, 31)
                  IN  IF ~start.ok \/ ~end.ok THEN ErrRange("Invalid date")
                      ELSE OkRange(start.date, end.date)
        ELSE IF Len(parts) = 2
        THEN LET month == ParseUnsigned(parts[2])
             IN  IF ~year.ok THEN ErrRange("Invalid year")
                 ELSE IF ~month.ok THEN ErrRange("Invalid month")
                 ELSE IF month.v \notin 1 .. 12 THEN ErrRange("Month out of range")
                 ELSE LET start == FromYmdOpt(year.v, month.v, 1)
                          end == LastDayOfMonth(year.v, month.v)
                      IN  IF ~start.ok THEN ErrRange("Invalid date")
                          ELSE IF end.panic THEN PanicRange
                          ELSE OkRange(start.date, end.date)
        ELSE IF Len(parts) = 3
        THEN LET month == ParseUnsigned(parts[2])
                 day == ParseUnsigned(parts[3])
             IN  IF ~year.ok THEN ErrRange("Invalid year")
                 ELSE IF ~month.ok THEN ErrRange("Invalid month")
                 ELSE IF ~day.ok THEN ErrRange("Invalid day")
                 ELSE LET date == FromYmdOpt(year.v, month.v, day.v)
                      IN  IF ~date.ok THEN ErrRange("Invalid date")
                          ELSE OkRange(date.date, date.date)
        ELSE ErrRange("Invalid date specifier")

\* parse_date_arg, had it not compared start and end
ParseDateArgUnchecked(arg) ==
    IF Contains(arg, "-")
    THEN LET specs == SplitOnce(arg, "-")
             start_range == ParseSpecifierToRange(specs[1])
             end_range == ParseSpecifierToRange(specs[2])
         IN  IF ~start_range.ok THEN start_range
             ELSE IF ~end_range.ok THEN end_range
             ELSE OkRange(start_range.start, end_range.end)
    ELSE ParseSpecifierToRange(arg)

\* parse_date_arg
ParseDateArg(arg) ==
    IF Contains(arg, "-")
    THEN LET specs == SplitOnce(arg, "-")
             start_range == ParseSpecifierToRange(specs[1])
             end_range == ParseSpecifierToRange(specs[2])
         IN  IF ~start_range.ok THEN start_range
             ELSE IF ~end_range.ok THEN end_range
             ELSE IF DateAfter(start_range.start, end_range.end)
             THEN ErrRange("Start date after end date")
             ELSE OkRange(start_range.start, end_range.end)
    ELSE ParseSpecifierToRange(arg)

\* a part of a specifier as written, and the number it stands for (Bad for
\* a text that is no number)
Bad == -1

Part(text, v) == [text |-> text, v |-> v]

YearParts ==
    {Part(<<"2", "0", "2", "3">>, 2023), Part(<<"2", "0", "2", "4">>, 2024),
     Part(<<"1", "9", "0", "0">>, 1900), Part(<<"2", "0", "0", "0">>, 2000),
     Part(<<"x">>, Bad)}

MonthParts ==
    {Part(<<"1">>, 1), Part(<<"0", "2">>, 2), Part(<<"4">>, 4), Part(<<"1", "2">>, 12),
     Part(<<"1", "3">>, 13), Part(<<"0">>, 0), Part(<<"x">>, Bad)}

DayParts ==
    {Part(<<"1">>, 1), Part(<<"2", "8">>, 28), Part(<<"2", "9">>, 29), Part(<<"3", "0">>, 30),
     Part(<<"3", "1">>, 31), Part(<<"3", "2">>, 32), Part(<<"0">>, 0)}

\* the specifiers: "Y", "Y.M", "Y.M.D" and one of four parts
Specifiers ==
    {<<y>> : y \in YearParts}
    \cup {<<y, m>> : y \in YearParts, m \in MonthParts}
    \cup {<<y, m, d>> : y \in YearParts, m \in MonthParts, d \in DayParts}
    \cup {<<Part(<<"2", "0", "2", "4">>, 2024), Part(<<"1">>, 1), Part(<<"1">>, 1), Part(<<"1">>, 1)>>}

\* the text of a specifier
SpecifierText(given) == Join([i \in 1 .. Len(given) |-> given[i].text], ".")

\* the specifiers that the two sides of "A-B" are taken from
RangeEnds ==
    {<<Part(<<"2", "0", "2", "3">>, 2023)>>,
     <<Part(<<"2", "0", "2", "4">>, 2024), Part(<<"0", "2">>, 2)>>,
     <<Part(<<"2", "0", "2", "4">>, 2024), Part(<<"0", "2">>, 2), Part(<<"2", "9">>, 29)>>,
     <<Part(<<"2", "0", "2", "4">>, 2024), Part(<<"1", "2">>, 12)>>,
     <<Part(<<"2", "0", "2", "3">>, 2023), Part(<<"0", "2">>, 2), Part(<<"2", "9">>, 29)>>,
     <<Part(<<"2", "0", "2", "4">>, 2024), Part(<<"1", "3">>, 13)>>,
     <<Part(<<"x">>, Bad)>>}

\* the longest list of date arguments
MaxDates == 3

\* DateSelector::new and DateSelector::add_range: an ordered collection
NewSelector == <<>>

AddRange(selector, range) == Append(selector, [start |-> range.start, end |-> range.end])

\* the result of building a selector: Ok(selector), or Err with the message
\* and the argument it names
OkSelector(selector) ==
    [ok |-> TRUE, panic |-> FALSE, err |-> "", arg |-> <<>>, ranges |-> selector]

ErrSelector(message, arg) ==
    [ok |-> FALSE, panic |-> FALSE, err |-> message, arg |-> arg, ranges |-> <<>>]

PanicSelector == [ok |-> FALSE, panic |-> TRUE, err |-> "", arg |-> <<>>, ranges |-> <<>>]

\* the loop, had it passed over an argument that does not parse
RECURSIVE FromDatesLoopSkipping(_, _)
FromDatesLoopSkipping(dates, selector) ==
    IF dates = <<>> THEN OkSelector(selector)
    ELSE LET range == ParseDateArg(Head(dates))
         IN  IF range.panic THEN PanicSelector
             ELSE IF range.ok THEN FromDatesLoopSkipping(Tail(dates), AddRange(selector, range))
             ELSE FromDatesLoopSkipping(Tail(dates), selector)

\* the loop over the date arguments: add the range of each, stop at the
\* first that does not parse
RECURSIVE FromDatesLoop(_, _)
FromDatesLoop(dates, selector) ==
    IF dates = <<>> THEN OkSelector(selector)
    ELSE LET range == ParseDateArg(Head(dates))
         IN  IF range.panic THEN PanicSelector
             ELSE IF range.ok THEN FromDatesLoop(Tail(dates), AddRange(selector, range))
             ELSE ErrSelector("Invalid date argument", Head(dates))

\* DateSelector::from_dates
FromDates(dates) == FromDatesLoop(dates, NewSelector)

\* the date arguments that the lists are made of
DateArgTexts ==
    {SpecifierText(g) : g \in RangeEnds \ {<<Part(<<"2", "0", "2", "4">>, 2024), Part(<<"1", "2">>, 12)>>,
                                            <<Part(<<"2", "0", "2", "4">>, 2024), Part(<<"1", "3">>, 13)>>}}
    \cup {<<"2", "0", "2", "3", "-", "2", "0", "2", "4", ".", "0", "2">>}

RECURSIVE ListsUpTo(_, _)
ListsUpTo(S, n) ==
    IF n = 0 THEN {<<>>}
    ELSE LET shorter == ListsUpTo(S, n - 1)
         IN  shorter \cup {Append(v, x) : v \in {w \in shorter : Len(w) = n - 1}, x \in S}

\* str::trim for the whitespace of the alphabet
RECURSIVE TrimStart(_)
TrimStart(s) == IF s # <<>> /\ Head(s) = " " THEN TrimStart(Tail(s)) ELSE s

RECURSIVE TrimEnd(_)
TrimEnd(s) ==
    IF s # <<>> /\ s[Len(s)] = " " THEN TrimEnd(SubSeq(s, 1, Len(s) - 1)) ELSE s

Trim(s) == TrimEnd(TrimStart(s))

\* str::trim_end_matches('h')
RECURSIVE TrimEndMatchesH(_)
TrimEndMatchesH(s) ==
    IF s # <<>> /\ s[Len(s)] = "h" THEN TrimEndMatchesH(SubSeq(s, 1, Len(s) - 1)) ELSE s

RECURSIVE Pow10(_)
Pow10(n) == IF n = 0 THEN 1 ELSE 10 * Pow10(n - 1)

\* A number of hours is carried as its number of minutes, hours = minutes / 60.
MinutesPerHour == 60

MinutesPerDay == 24 * MinutesPerHour

\* str::parse::<f32> on the alphabet: an optional sign, digits with at most
\* one '.', one digit at least; the value in minutes
ParseF32Hours(s) ==
    LET signed   == s # <<>> /\ Head(s) \in {"+", "-"}
        body     == IF signed THEN Tail(s) ELSE s
        dotted   == Contains(body, ".")
        whole    == IF dotted THEN SplitOnce(body, ".")[1] ELSE body
        fraction == IF dotted THEN SplitOnce(body, ".")[2] ELSE <<>>
        digits   == whole \o fraction
        value    == DecimalValue(whole, 0) * MinutesPerHour
                    + (DecimalValue(fraction, 0) * MinutesPerHour) \div Pow10(Len(fraction))
    IN  IF ~AllDigits(digits) THEN [ok |-> FALSE, v |-> 0]
        ELSE [ok |-> TRUE, v |-> IF signed /\ Head(s) = "-" THEN 0 - value ELSE value]

\* NaiveTime::parse_from_str(s, "%H:%M"): one or two digits, ':', one or two
\* digits, the hour in 0..23 and the minute in 0..59; the minute of the day
ParseHM(s) ==
    IF ~Contains(s, ":") THEN [ok |-> FALSE, v |-> 0]
    ELSE LET hm == SplitOnce(s, ":")
             h  == hm[1]
             m  == hm[2]
         IN  IF /\ AllDigits(h) /\ Len(h) <= 2 /\ DecimalValue(h, 0) <= 23
                /\ AllDigits(m) /\ Len(m) <= 2 /\ DecimalValue(m, 0) <= 59
             THEN [ok |-> TRUE, v |-> DecimalValue(h, 0) * MinutesPerHour + DecimalValue(m, 0)]
             ELSE [ok |-> FALSE, v |-> 0]

OkHours(minutes) == [ok |-> TRUE, panic |-> FALSE, err |-> "", minutes |-> minutes]

ErrHours(message) == [ok |-> FALSE, panic |-> FALSE, err |-> message, minutes |-> 0]

\* parse_time_spec
ParseTimeSpec(time_spec_raw) ==
    LET time_spec == Trim(time_spec_raw)
    IN  IF time_spec # <<>> /\ time_spec[Len(time_spec)] = "h"
        THEN LET hours == ParseF32Hours(TrimEndMatchesH(time_spec))
             IN  IF hours.ok THEN OkHours(hours.v) ELSE ErrHours("Invalid hour format")
        ELSE IF Contains(time_spec, "-")
        THEN LET raw == Split(time_spec, "-", <<>>)
                 parts == [i \in 1 .. Len(raw) |-> Trim(raw[i])]
             IN  IF Len(parts) # 2 THEN ErrHours("Time range must have exactly two parts")
                 ELSE
                 LET start_str == parts[1]
                     end_str_raw == parts[2]
                     start_str_formatted ==
                         IF Contains(start_str, ":") THEN start_str
                         ELSE start_str \o <<":", "0", "0">>
                     end_str_formatted ==
                         IF Contains(end_str_raw, ":") THEN end_str_raw
                         ELSE end_str_raw \o <<":", "0", "0">>
                     is_midnight ==
                         IF Contains(end_str_raw, ":")
                         THEN end_str_raw = <<"2", "4", ":", "0", "0">>
                         ELSE end_str_raw = <<"2", "4">>
                     start == ParseHM(start_str_formatted)
                     end == IF is_midnight THEN [ok |-> TRUE, v |-> 0]
                            ELSE ParseHM(end_str_formatted)
                     duration == end.v - start.v
                 IN  IF ~start.ok THEN ErrHours("Invalid start time")
                     ELSE IF ~end.ok THEN ErrHours("Invalid end time")
                     ELSE IF duration < 0
                          THEN IF is_midnight THEN OkHours(MinutesPerDay + duration)
                               ELSE ErrHours("End time before start time")
                          ELSE OkHours(duration)
        ELSE ErrHours("Invalid time specification format")

\* the times of a range as written, and the minute of the day each stands
\* for (Bad for a text that is no time of the day)
TimeParts ==
    {Part(<<"0">>, 0), Part(<<"0", "0", ":", "0", "0">>, 0), Part(<<"9">>, 540),
     Part(<<"9", ":", "3", "0">>, 570), Part(<<"1", "7", ":", "0", "0">>, 1020),
     Part(<<"2", "2">>, 1320), Part(<<"2", "3", ":", "5", "9">>, 1439),
     Part(<<" ", "9", " ">>, 540), Part(<<"2", "4">>, Bad),
     Part(<<"2", "4", ":", "0", "0">>, Bad), Part(<<"2", "5">>, Bad),
     Part(<<"9", ":", "6", "0">>, Bad), Part(<<"x">>, Bad), Part(<<>>, Bad)}

\* the durations as written, and their minutes
HourParts ==
    {Part(<<"8", "h">>, 480), Part(<<"0", ".", "5", "h">>, 30),
     Part(<<"-", "2", "h">>, -120), Part(<<"1", ".", "5", "h", " ">>, 90),
     Part(<<"x", "h">>, Bad), Part(<<"h">>, Bad)}

\* Entry, without the text it carries
Time(h) == [kind |-> "Time", value |-> h]

FixedCost(c) == [kind |-> "FixedCost", value |-> c]

Note == [kind |-> "Note", value |-> 0]

NoEntry == [kind |-> "none", value |-> 0]

OkEntry(entry) == [ok |-> TRUE, panic |-> FALSE, err |-> "", entry |-> entry]

ErrEntry(message) == [ok |-> FALSE, panic |-> FALSE, err |-> message, entry |-> NoEntry]

\* str::splitn(2, '='), trimmed: one part when the line has no '='
Splitn2Eq(line) ==
    IF Contains(line, "=")
    THEN <<Trim(SplitOnce(line, "=")[1]), Trim(SplitOnce(line, "=")[2])>>
    ELSE <<Trim(line)>>

\* str::trim_start_matches('$')
RECURSIVE TrimStartMatchesDollar(_)
TrimStartMatchesDollar(s) ==
    IF s # <<>> /\ Head(s) = "$" THEN TrimStartMatchesDollar(Tail(s)) ELSE s

\* str::trim_start_matches("-$")
RECURSIVE TrimStartMatchesMinusDollar(_)
TrimStartMatchesMinusDollar(s) ==
    IF Len(s) >= 2 /\ SubSeq(s, 1, 2) = <<"-", "$">>
    THEN TrimStartMatchesMinusDollar(SubSeq(s, 3, Len(s)))
    ELSE s

\* the loop over the time specs, had it passed over a spec that is invalid
RECURSIVE SumTimeSpecsSkipping(_, _)
SumTimeSpecsSkipping(time_specs, total_hours) ==
    IF time_specs = <<>> THEN OkHours(total_hours)
    ELSE LET hours == ParseTimeSpec(Trim(Head(time_specs)))
         IN  IF ~hours.ok THEN SumTimeSpecsSkipping(Tail(time_specs), total_hours)
             ELSE SumTimeSpecsSkipping(Tail(time_specs), total_hours + hours.minutes)

\* parse_line, the loop over the time specs: `total_hours +=
\* parse_time_spec(time_spec)?`
RECURSIVE SumTimeSpecs(_, _)
SumTimeSpecs(time_specs, total_hours) ==
    IF time_specs = <<>> THEN OkHours(total_hours)
    ELSE LET hours == ParseTimeSpec(Trim(Head(time_specs)))
         IN  IF ~hours.ok THEN hours
             ELSE SumTimeSpecs(Tail(time_specs), total_hours + hours.minutes)

\* parse_line; amounts are carried in sixtieths, as hours are
ParseLine(line_raw) ==
    LET line == Trim(line_raw)
        marked == line # <<>> /\ Head(line) \in {"-", "*"}
    IN  IF marked /\ ~(Head(line) = "-" /\ Contains(Tail(line), "="))
        THEN OkEntry(Note)
        ELSE
        LET parts == Splitn2Eq(line)
        IN  IF Len(parts) # 2
            THEN ErrEntry("Entry must have exactly two parts: value and description")
            ELSE
            LET value_part == parts[1]
            IN  IF value_part # <<>> /\ Head(value_part) = "$"
                THEN LET cost == ParseF32Hours(TrimStartMatchesDollar(value_part))
                     IN  IF cost.ok THEN OkEntry(FixedCost(cost.v))
                         ELSE ErrEntry("Invalid cost format")
                ELSE IF Len(value_part) >= 2 /\ SubSeq(value_part, 1, 2) = <<"-", "$">>
                THEN LET cost == ParseF32Hours(TrimStartMatchesMinusDollar(value_part))
                     IN  IF cost.ok THEN OkEntry(FixedCost(0 - cost.v))
                         ELSE ErrEntry("Invalid cost format")
                ELSE LET total == SumTimeSpecs(Split(value_part, ",", <<>>), 0)
                     IN  IF total.ok THEN OkEntry(Time(total.minutes))
                         ELSE ErrEntry(total.err)

\* the most time specs of a line
MaxSpecs == 3

\* the time specs of a line as written
LineSpecs ==
    {<<"8", "h">>, <<"-", "2", "h">>, <<"0", ".", "5", "h">>, <<"9", "-", "1", "7">>,
     <<"2", "2", "-", "2", "4">>, <<"0", "-", "2", "4">>, <<"1", "7", "-", "9">>,
     <<"x">>, <<>>}

\* the other lines: notes, fixed costs, lines without '='
OtherLines ==
    {<<"-", " ", "x">>, <<"*", "x">>, <<"-", "2", "h", " ", "x">>, <<"8", "h">>,
     <<"$", "8", " ", "=", " ", "x">>, <<"-", "$", "4", "=", "x">>,
     <<"$", "x", "=", "x">>, <<"-", "$", "=", "x">>, <<>>}

\* the longest index file that is loaded
MaxLoadLines == 3

\* a line of an index file as written: its text with the sequence number it
\* carries (Bad for a line that carries none), then its date tokens
IndexLine(text, sequence, dates) ==
    <<Part(text, sequence)>> \o [i \in 1 .. Len(dates) |-> Part(dates[i], 0)]

IndexLines ==
    {IndexLine(<<"1", " ", "2", "4">>, 1, <<Tok1>>),
     IndexLine(<<"1", " ", "2", "4", ".", "1", " ", "2", "4">>, 1, <<Tok2, Tok1>>),
     IndexLine(<<"2", " ">>, 2, <<>>),
     IndexLine(FormatU32(U32Max) \o <<" ", " ", "2", "4", " ">>, U32Max, <<Tok1>>),
     IndexLine(<<"+", "2", " ", "2", "4", ".", "1">>, 2, <<Tok2>>),
     IndexLine(<<"2", "4">>, Bad, <<>>),
     IndexLine(<<"x", " ", "2", "4">>, Bad, <<>>),
     IndexLine(FormatU32(U32Max) \o <<"0", " ", "2", "4">>, Bad, <<>>),
     IndexLine(<<" ", "1", " ", "2", "4">>, Bad, <<>>),
     IndexLine(<<>>, Bad, <<>>)}

\* Index::load as Index::new calls it: Ok with the loaded entries
OkLoad(m) == [ok |-> TRUE, panic |-> FALSE, err |-> "", entries |-> m.entries]

\* the calls of the parsing functions: the function, what the argument was
\* written from, and the argument
ParseCalls ==
    {[phase |-> "call", fn |-> "from_dates", given |-> <<>>, arg |-> <<>>, dates |-> dates] :
        dates \in ListsUpTo(DateArgTexts, MaxDates)}
    \cup
    {[phase |-> "call", fn |-> "parse_specifier_to_range", given |-> <<g>>,
      arg |-> SpecifierText(g), dates |-> <<>>] : g \in Specifiers}
    \cup {[phase |-> "call", fn |-> "parse_date_arg", given |-> <<g>>,
           arg |-> SpecifierText(g), dates |-> <<>>] : g \in Specifiers}
    \cup {[phase |-> "call", fn |-> "parse_date_arg", given |-> <<a, b>>,
           arg |-> SpecifierText(a) \o <<"-">> \o SpecifierText(b), dates |-> <<>>] :
              a \in RangeEnds, b \in RangeEnds}
    \cup {[phase |-> "call", fn |-> "parse_line",
           given |-> [i \in 1 .. Len(specs) |-> <<Part(specs[i], 0)>>],
           arg |-> Join(specs, ",") \o <<" ", "=", " ", "x">>, dates |-> <<>>] :
              specs \in ListsUpTo(LineSpecs, MaxSpecs) \ {<<>>}}
    \cup {[phase |-> "call", fn |-> "parse_line", given |-> <<>>, arg |-> line,
           dates |-> <<>>] : line \in OtherLines}
    \cup {[phase |-> "call", fn |-> "load", given |-> file, arg |-> <<>>,
           dates |-> [i \in 1 .. Len(file) |-> file[i][1].text]] :
              file \in ListsUpTo(IndexLines, MaxLoadLines)}
    \cup {[phase |-> "call", fn |-> "parse_time_spec", given |-> <<<<s>>, <<e>>>>,
           arg |-> s.text \o <<"-">> \o e.text, dates |-> <<>>] :
              s \in TimeParts, e \in TimeParts}
    \cup {[phase |-> "call", fn |-> "parse_time_spec", given |-> <<<<h>>>>,
           arg |-> h.text, dates |-> <<>>] : h \in HourParts \cup TimeParts}
    \cup {[phase |-> "call", fn |-> "parse_time_spec", given |-> <<<<a>>, <<b>>, <<b>>>>,
           arg |-> a.text \o <<"-">> \o b.text \o <<"-">> \o b.text, dates |-> <<>>] :
              a \in {Part(<<"9">>, 540)}, b \in {Part(<<"1", "7", ":", "0", "0">>, 1020)}}

InitParse ==
    /\ InitFs
    /\ pc = [p \in Procs |-> "off"]
    /\ args = [p \in Procs |-> NoArgs]
    /\ ledger = NoLedger
    /\ agg = NoAgg
    /\ \E c \in ParseCalls : parse = [c EXCEPT !.phase = "call"]

\* the call returns or panics
Return(result) ==
    /\ parse' = [phase |-> IF result.panic THEN "panic" ELSE "done", fn |-> parse.fn,
                 given |-> parse.given, arg |-> parse.arg, dates |-> parse.dates,
                 result |-> result]
    /\ UNCHANGED <<indexVars, ledger, agg>>

CallParseSpecifierToRange ==
    /\ parse.phase = "call"
    /\ parse.fn = "parse_specifier_to_range"
    /\ Return(ParseSpecifierToRange(parse.arg))

CallParseDateArg ==
    /\ parse.phase = "call"
    /\ parse.fn = "parse_date_arg"
    /\ Return(ParseDateArg(parse.arg))

CallFromDates ==
    /\ parse.phase = "call"
    /\ parse.fn = "from_dates"
    /\ Return(FromDates(parse.dates))

CallParseTimeSpec ==
    /\ parse.phase = "call"
    /\ parse.fn = "parse_time_spec"
    /\ Return(ParseTimeSpec(parse.arg))

CallParseLine ==
    /\ parse.phase = "call"
    /\ parse.fn = "parse_line"
    /\ Return(ParseLine(parse.arg))

\* Index::load on the lines of the file
CallLoad ==
    /\ parse.phase = "call"
    /\ parse.fn = "load"
    /\ Return(OkLoad(Load(parse.dates)))

NextParse ==
    \/ CallParseSpecifierToRange
    \/ CallParseDateArg
    \/ CallFromDates
    \/ CallParseTimeSpec
    \/ CallParseLine
    \/ CallLoad

SpecParse == InitParse /\ [][NextParse]_vars

\* a call of fn has ended for an argument written from n specifiers
Returned(fn, n) ==
    /\ parse.phase \in {"done", "panic"}
    /\ parse.fn = fn
    /\ Len(parse.given) = n

\* the numbers of a specifier as written
YearOf(g) == g[1].v

MonthOf(g) == g[2].v

DayOf(g) == g[3].v

Ymd(y, m, d) == [year |-> y, month |-> m, day |-> d]

\* C17: parse_specifier_to_range never panics; for "Y.M" with a year Y and
\* a month M in 1..12 it returns the range from day 1 to the last day of
\* that month of that year (29 in a leap February, 28 in another, 30 or 31
\* else, 31 in December), and for another M it returns an error; for
\* "Y.M.D" it returns an error unless D is a day of month M of year Y
C17_MonthRange ==
    Returned("parse_specifier_to_range", 1) =>
        LET g == parse.given[1]
            r == parse.result
        IN  /\ parse.phase = "done"
            /\ (Len(g) = 2 /\ YearOf(g) # Bad) =>
                  IF MonthOf(g) \in 1 .. 12
                  THEN /\ r.ok
                       /\ r.start = Ymd(YearOf(g), MonthOf(g), 1)
                       /\ r.end = Ymd(YearOf(g), MonthOf(g),
                                      IF MonthOf(g) = 2
                                      THEN (IF IsLeapYear(YearOf(g)) THEN 29 ELSE 28)
                                      ELSE IF MonthOf(g) \in {4, 6, 9, 11} THEN 30 ELSE 31)
                  ELSE ~r.ok
            /\ (Len(g) = 3 /\ YearOf(g) # Bad) =>
                  (r.ok <=> (MonthOf(g) \in 1 .. 12 /\ DayOf(g) >= 1
                             /\ DayOf(g) <= DaysInMonth(YearOf(g), MonthOf(g))))

\* "2024.02" has returned the range that ends on the 29th
C17_Witness ==
    /\ Returned("parse_specifier_to_range", 1)
    /\ Len(parse.given[1]) = 2
    /\ YearOf(parse.given[1]) = 2024 /\ MonthOf(parse.given[1]) = 2
    /\ parse.result.ok
    /\ parse.result.end = Ymd(2024, 2, 29)

\* the result of parse_specifier_to_range for a specifier as written
RangeOf(g) == ParseSpecifierToRange(SpecifierText(g))

\* C18: a range returned as Ok by parse_specifier_to_range or by
\* parse_date_arg, also as a range of a selector, has start <= end; parse_date_arg("A-B") returns the
\* start of the range of A and the end of the range of B, and an error
\* when one of the two is an error or that start is after that end
C18_StartNotAfterEnd ==
    /\ (/\ parse.phase = "done"
        /\ parse.fn \in {"parse_specifier_to_range", "parse_date_arg", "from_dates"}
        /\ parse.result.ok)
          => IF parse.fn = "from_dates"
             THEN \A i \in 1 .. Len(parse.result.ranges) :
                     ~DateAfter(parse.result.ranges[i].start, parse.result.ranges[i].end)
             ELSE ~DateAfter(parse.result.start, parse.result.end)
    /\ Returned("parse_date_arg", 2) =>
          LET a == RangeOf(parse.given[1])
              b == RangeOf(parse.given[2])
              r == parse.result
          IN  /\ parse.phase = "done"
              /\ IF a.ok /\ b.ok /\ ~DateAfter(a.start, b.end)
                 THEN r.ok /\ r.start = a.start /\ r.end = b.end
                 ELSE ~r.ok

\* "2024.02-2023" has been rejected: 2024-02-01 is after 2023-12-31
C18_Witness ==
    /\ Returned("parse_date_arg", 2)
    /\ RangeOf(parse.given[1]).ok /\ RangeOf(parse.given[2]).ok
    /\ DateAfter(RangeOf(parse.given[1]).start, RangeOf(parse.given[2]).end)
    /\ parse.result.err = "Start date after end date"

\* C13: from_dates on a list whose arguments all parse returns a selector
\* with the range of each argument, in the order of the arguments (the
\* empty selector for the empty list); on a list with an argument that does
\* not parse it returns an error that names the first such argument, and no
\* selector
C13_FromDatesAllOrNothing ==
    (parse.phase \in {"done", "panic"} /\ parse.fn = "from_dates") =>
        LET dates == parse.dates
            r == parse.result
            invalid == {i \in 1 .. Len(dates) : ~ParseDateArg(dates[i]).ok}
        IN  /\ parse.phase = "done"
            /\ IF invalid = {}
               THEN /\ r.ok
                    /\ Len(r.ranges) = Len(dates)
                    /\ \A i \in 1 .. Len(dates) :
                          /\ r.ranges[i].start = ParseDateArg(dates[i]).start
                          /\ r.ranges[i].end = ParseDateArg(dates[i]).end
               ELSE /\ ~r.ok
                    /\ r.ranges = <<>>
                    /\ r.err = "Invalid date argument"
                    /\ r.arg = dates[SetMin(invalid)]

\* from_dates has failed on a list of three arguments of which the first
\* and the last parse
C13_Witness ==
    /\ parse.phase = "done" /\ parse.fn = "from_dates"
    /\ Len(parse.dates) = 3
    /\ ParseDateArg(parse.dates[1]).ok
    /\ ~ParseDateArg(parse.dates[2]).ok
    /\ ParseDateArg(parse.dates[3]).ok
    /\ ~parse.result.ok
    /\ parse.result.arg = parse.dates[2]

IsMidnightText(text) ==
    Trim(text) \in {<<"2", "4">>, <<"2", "4", ":", "0", "0">>}

IsTimeOfDay(part) == part.v \in 0 .. MinutesPerDay - 1

\* C19: for a range "S-E" of two times of the day parse_time_spec returns
\* E - S when E is not before S and the error "End time before start time"
\* when it is; for an end written "24" or "24:00" it returns the time from
\* S to the end of the day, for every start S, 00:00 included.
C19_TimeRanges ==
    Returned("parse_time_spec", 2) =>
        LET S == parse.given[1][1]
            E == parse.given[2][1]
            r == parse.result
        IN  IsTimeOfDay(S) =>
              /\ IsMidnightText(E.text) =>
                    r.ok /\ r.minutes = MinutesPerDay - S.v
              /\ (IsTimeOfDay(E) /\ E.v >= S.v) =>
                    r.ok /\ r.minutes = E.v - S.v
              /\ (IsTimeOfDay(E) /\ E.v < S.v) =>
                    ~r.ok /\ r.err = "End time before start time"

\* The same for every start after 00:00.
C19_TimeRangesAfterMidnight ==
    Returned("parse_time_spec", 2) =>
        LET S == parse.given[1][1]
            E == parse.given[2][1]
            r == parse.result
        IN  (IsTimeOfDay(S) /\ S.v > 0) =>
              /\ IsMidnightText(E.text) =>
                    r.ok /\ r.minutes = MinutesPerDay - S.v
              /\ (IsTimeOfDay(E) /\ E.v >= S.v) =>
                    r.ok /\ r.minutes = E.v - S.v
              /\ (IsTimeOfDay(E) /\ E.v < S.v) =>
                    ~r.ok /\ r.err = "End time before start time"

\* the lines of the loaded file that carry a sequence number
WellFormed == {i \in 1 .. Len(parse.given) : parse.given[i][1].v # Bad}

\* the date tokens of line i as written
DatesOfLine(i) == [j \in 1 .. Len(parse.given[i]) - 1 |-> parse.given[i][j + 1].text]

\* C21: Index::load returns Ok for every file; the loaded mapping holds,
\* for every sequence number a well-formed line carries, the date tokens of
\* the last such line, and nothing else: a line without a second part or
\* without a u32 in front is skipped.
C21_LoadToleratesMalformedLines ==
    (parse.phase \in {"done", "panic"} /\ parse.fn = "load") =>
        /\ parse.phase = "done"
        /\ parse.result.ok
        /\ parse.result.entries =
             {[k |-> parse.given[i][1].v, d |-> DatesOfLine(i)] :
                i \in {w \in WellFormed :
                         \A x \in WellFormed :
                            parse.given[x][1].v = parse.given[w][1].v => x <= w}}

\* a file has been loaded in which a malformed line stands between two
\* well-formed lines of one sequence number, and the last of them is held
C21_Witness ==
    /\ parse.phase = "done" /\ parse.fn = "load"
    /\ Len(parse.given) = 3
    /\ WellFormed = {1, 3}
    /\ parse.given[1][1].v = parse.given[3][1].v
    /\ DatesOfLine(1) # DatesOfLine(3)
    /\ parse.result.entries = {[k |-> parse.given[3][1].v, d |-> DatesOfLine(3)]}

\* what parse_time_spec returns for the i-th time spec of the line
SpecResult(i) == ParseTimeSpec(parse.given[i][1].text)

RECURSIVE SumMinutes(_)
SumMinutes(I) ==
    IF I = {} THEN 0
    ELSE LET i == CHOOSE x \in I : TRUE IN SpecResult(i).minutes + SumMinutes(I \ {i})

\* C24: parse_line returns one Entry or an error and never panics; for a
\* line of comma-separated time specs it returns an error, and no entry,
\* when parse_time_spec rejects one of them, and else one Time entry whose
\* hours are the signed sum of what parse_time_spec returns for each.
C24_ParseLineAllOrNothing ==
    (parse.phase \in {"done", "panic"} /\ parse.fn = "parse_line") =>
        LET r == parse.result
            I == 1 .. Len(parse.given)
        IN  /\ parse.phase = "done"
            /\ r.ok <=> r.entry # NoEntry
            /\ ~r.ok => r.err # ""
            /\ I # {} =>
                 IF \A i \in I : SpecResult(i).ok
                 THEN r.ok /\ r.entry = Time(SumMinutes(I))
                 ELSE /\ ~r.ok
                      /\ r.entry = NoEntry
                      /\ \E i \in I : ~SpecResult(i).ok /\ r.err = SpecResult(i).err

\* a line of three time specs whose second is invalid has been rejected,
\* the first and the third being valid
C24_Witness ==
    /\ parse.phase = "done" /\ parse.fn = "parse_line"
    /\ Len(parse.given) = 3
    /\ SpecResult(1).ok /\ SpecResult(1).minutes > 0
    /\ ~SpecResult(2).ok
    /\ SpecResult(3).ok /\ SpecResult(3).minutes < 0
    /\ ~parse.result.ok
    /\ parse.result.entry = NoEntry

\* ---------------------------------------------------------------------------
\* Invoice aggregation (generate::run, from the loaded store to the totals).
\*
\* Hours and amounts are integers of one unit each.  An f64 keeps F64Bits
\* significant bits and an f32 F32Bits: every operation on them, and the
\* narrowing of an f64 to f32, rounds to the nearest such value, ties to even.
\* The stores and configurations of Stores and Configs stay below the
\* magnitudes where an f64 rounds; those of RoundingStores and
\* RoundingConfigs reach them.
\* ---------------------------------------------------------------------------

F32Bits == 3

F64Bits == 10

MaxEntries == 2

RECURSIVE Pow2(_)
Pow2(n) == IF n = 0 THEN 1 ELSE 2 * Pow2(n - 1)

RECURSIVE BitLength(_)
BitLength(a) == IF a = 0 THEN 0 ELSE 1 + BitLength(a \div 2)

Abs(x) == IF x < 0 THEN -x ELSE x

\* the nearest value with the given number of significant bits, ties to even
RoundBits(x, width) ==
    LET a    == Abs(x)
        bits == BitLength(a)
        step == IF bits > width THEN Pow2(bits - width) ELSE 1
        q    == a \div step
        r    == a % step
        m    == IF 2 * r < step THEN q
                ELSE IF 2 * r > step THEN q + 1
                ELSE IF q % 2 = 0 THEN q ELSE q + 1
    IN  IF x < 0 THEN -(m * step) ELSE m * step

\* `x as f32`, and the result of an operation on f32
RoundF32(x) == RoundBits(x, F32Bits)

\* the result of an operation on f64
RoundF64(x) == RoundBits(x, F64Bits)

IsF32(x) == RoundF32(x) = x

\* days.iter().map(|d| d.hours).sum() over f32.
RECURSIVE SumF32(_, _)
SumF32(rows, acc) ==
    IF rows = <<>> THEN acc
    ELSE SumF32(Tail(rows), RoundF32(acc + Head(rows).hours))

RECURSIVE SortedDates(_)
SortedDates(S) ==
    IF S = {} THEN <<>> ELSE <<SetMin(S)>> \o SortedDates(S \ {SetMin(S)})

\* The loop over one day's entries: the day's hours and the running fee and
\* discount totals.
RECURSIVE EntriesLoopSignIgnored(_, _)
EntriesLoopSignIgnored(entries, acc) ==
    IF entries = <<>> THEN acc
    ELSE LET entry == Head(entries)
             next  ==
               CASE entry.kind = "Time" ->
                      [acc EXCEPT !.total_hours = RoundF64(@ + entry.value)]
                 [] entry.kind = "FixedCost" ->
                      [acc EXCEPT !.total_fees = RoundF64(@ + entry.value)]
                 [] OTHER -> acc
         IN  EntriesLoopSignIgnored(Tail(entries), next)

RECURSIVE EntriesLoop(_, _)
EntriesLoop(entries, acc) ==
    IF entries = <<>> THEN acc
    ELSE LET entry == Head(entries)
             next  ==
               CASE entry.kind = "Time" ->
                      [acc EXCEPT !.total_hours = RoundF64(@ + entry.value)]
                 [] entry.kind = "FixedCost" ->
                      IF entry.value > 0
                      THEN [acc EXCEPT !.total_fees = RoundF64(@ + entry.value)]
                      ELSE [acc EXCEPT !.total_discounts = RoundF64(@ + entry.value)]
                 [] OTHER -> acc
         IN  EntriesLoop(Tail(entries), next)

\* The per-day cap: the hours of the day that are counted.
CapDayIgnored(total_hours, cap_hours_per_day) == total_hours

CapDay(total_hours, cap_hours_per_day) ==
    IF cap_hours_per_day > 0 /\ total_hours > 0 /\ total_hours > cap_hours_per_day
    THEN cap_hours_per_day
    ELSE total_hours

\* The per-invoice cap: the hours above the cap.
OverageHoursUncapped(total_hours_counted, cap_hours_per_invoice) == 0

OverageHours(total_hours_counted, cap_hours_per_invoice) ==
    IF cap_hours_per_invoice > 0 /\ total_hours_counted > cap_hours_per_invoice
    THEN RoundF64(total_hours_counted - cap_hours_per_invoice)
    ELSE 0

HourlyRates == {0, 4}

DayCaps == {-4, 0, 4, 9}

InvoiceCaps == {-4, 0, 6, 10}

TaxPercents == {0, 25}

Configs ==
    [hourly_rate : HourlyRates, cap_hours_per_day : DayCaps,
     cap_hours_per_invoice : InvoiceCaps, tax_percent : TaxPercents]

EntryChoices == {Time(3), Time(6), Time(-2), FixedCost(8), FixedCost(-4), Note}

OtherDays == {<<>>, <<Time(6)>>, <<Time(3), FixedCost(8)>>, <<Time(-2)>>}

AggDates == {1, 2}

\* stores whose counted hours are far above the per-invoice cap of
\* RoundingConfigs: the difference of the two needs more bits than an f64 has
RoundingStores ==
    {<<<<Time(2 * Pow2(F64Bits))>>>>,
     <<<<Time(Pow2(F64Bits))>>, <<Time(Pow2(F64Bits))>>>>}

RoundingConfigs ==
    [hourly_rate : {4, 12}, cap_hours_per_day : {0},
     cap_hours_per_invoice : {0, 3}, tax_percent : {0}]

Stores ==
    {[d \in {x \in AggDates : lists[x] # <<>>} |-> lists[d]] :
        lists \in {<<a, b>> : a \in ListsUpTo(EntryChoices, MaxEntries),
                              b \in OtherDays}}

InitAgg ==
    /\ InitFs
    /\ pc = [p \in Procs |-> "off"]
    /\ args = [p \in Procs |-> NoArgs]
    /\ ledger = NoLedger
    /\ parse = NoParse
    /\ \E input \in (Stores \X Configs) \cup (RoundingStores \X RoundingConfigs) :
         LET store  == input[1]
             config == input[2]
         IN
         agg = [phase |-> "days", store |-> store, config |-> config,
                sorted_dates |-> SortedDates(DOMAIN store), days |-> <<>>,
                total_hours_worked |-> 0, total_hours_counted |-> 0,
                total_fees |-> 0, total_discounts |-> 0,
                counted_amount |-> 0, overage_hours |-> 0,
                overage_discount |-> 0, total_hours_billed |-> 0,
                billed_amount |-> 0, subtotal_amount |-> 0,
                tax_amount |-> 0, total_amount |-> 0, total_hours |-> 0]

\* One iteration of the loop over the sorted dates.
AggDay ==
    /\ agg.phase = "days"
    /\ Len(agg.days) < Len(agg.sorted_dates)
    /\ LET index   == Len(agg.days) + 1
           date    == agg.sorted_dates[index]
           acc     == EntriesLoop(agg.store[date],
                                  [total_hours |-> 0,
                                   total_fees |-> agg.total_fees,
                                   total_discounts |-> agg.total_discounts])
           counted == CapDay(acc.total_hours, agg.config.cap_hours_per_day)
           day     == [index |-> index, date |-> date,
                       hours |-> RoundF32(counted),
                       cost |-> RoundF64(counted * agg.config.hourly_rate),
                       annotated |-> counted # acc.total_hours]
       IN  agg' = [agg EXCEPT
                     !.days = Append(@, day),
                     !.total_hours_worked = RoundF64(@ + acc.total_hours),
                     !.total_hours_counted = RoundF64(@ + counted),
                     !.total_fees = acc.total_fees,
                     !.total_discounts = acc.total_discounts]
    /\ UNCHANGED <<indexVars, ledger, parse>>

\* After the loop: the invoice totals, then the assertion on the row hours.
\* A failed assertion panics, so no invoice is written.
AggTotals ==
    /\ agg.phase = "days"
    /\ Len(agg.days) = Len(agg.sorted_dates)
    /\ LET hourly_rate        == agg.config.hourly_rate
           counted_amount     == RoundF64(agg.total_hours_counted * hourly_rate)
           overage_hours      == OverageHours(agg.total_hours_counted,
                                              agg.config.cap_hours_per_invoice)
           overage_discount   == -RoundF64(overage_hours * hourly_rate)
           total_hours_billed == RoundF64(agg.total_hours_counted - overage_hours)
           billed_amount      == RoundF64(total_hours_billed * hourly_rate)
           subtotal_amount    == RoundF64(RoundF64(billed_amount + agg.total_fees)
                                          + agg.total_discounts)
           tax_amount         == RoundF64(RoundF64(subtotal_amount * agg.config.tax_percent)
                                          \div 100)
           total_amount       == RoundF64(subtotal_amount + tax_amount)
           total_hours        == SumF32(agg.days, 0)
       IN  agg' = [agg EXCEPT
                     !.phase = IF total_hours = agg.total_hours_counted
                               THEN "done" ELSE "panic",
                     !.counted_amount = counted_amount,
                     !.overage_hours = overage_hours,
                     !.overage_discount = overage_discount,
                     !.total_hours_billed = total_hours_billed,
                     !.billed_amount = billed_amount,
                     !.subtotal_amount = subtotal_amount,
                     !.tax_amount = tax_amount,
                     !.total_amount = total_amount,
                     !.total_hours = total_hours]
    /\ UNCHANGED <<indexVars, ledger, parse>>

NextAgg == AggDay \/ AggTotals

SpecAgg == InitAgg /\ [][NextAgg]_vars

\* The store and the configuration as the formulas read them.
RECURSIVE SumTime(_)
SumTime(entries) ==
    IF entries = <<>> THEN 0
    ELSE (IF Head(entries).kind = "Time" THEN Head(entries).value ELSE 0)
         + SumTime(Tail(entries))

RECURSIVE SumFees(_)
SumFees(entries) ==
    IF entries = <<>> THEN 0
    ELSE (IF Head(entries).kind = "FixedCost" /\ Head(entries).value > 0
          THEN Head(entries).value ELSE 0)
         + SumFees(Tail(entries))

RECURSIVE SumDiscounts(_)
SumDiscounts(entries) ==
    IF entries = <<>> THEN 0
    ELSE (IF Head(entries).kind = "FixedCost" /\ ~(Head(entries).value > 0)
          THEN Head(entries).value ELSE 0)
         + SumDiscounts(Tail(entries))

\* The sum of f[x] over the x of S.
RECURSIVE SumOver(_, _)
SumOver(S, f) ==
    IF S = {} THEN 0
    ELSE LET x == CHOOSE y \in S : TRUE IN f[x] + SumOver(S \ {x}, f)

Worked == [date \in DOMAIN agg.store |-> SumTime(agg.store[date])]

Billed ==
    [date \in DOMAIN agg.store |->
       IF agg.config.cap_hours_per_day > 0
          /\ Worked[date] > agg.config.cap_hours_per_day
       THEN agg.config.cap_hours_per_day
       ELSE Worked[date]]

Aggregated == {agg.days[i].date : i \in 1 .. Len(agg.days)}

TotalsComputed == agg.phase \in {"done", "panic"}

\* C14: with a per-day cap C > 0, a day whose Time hours W exceed C counts
\* exactly C hours and costs C * hourly_rate, a day with W <= C (negative W
\* included) counts W; total_hours_counted is the sum of the counted hours of
\* the days aggregated so far and total_hours_worked the sum of their W.
C14_PerDayCap ==
    agg.phase # "off" =>
      /\ \A i \in 1 .. Len(agg.days) :
           LET day == agg.days[i]
           IN  /\ day.cost = Billed[day.date] * agg.config.hourly_rate
               /\ day.hours = RoundF32(Billed[day.date])
               /\ IsF32(Billed[day.date]) => day.hours = Billed[day.date]
               /\ day.annotated <=> (Billed[day.date] # Worked[day.date])
      /\ agg.total_hours_counted = SumOver(Aggregated, Billed)
      /\ agg.total_hours_worked = SumOver(Aggregated, Worked)

C14_Witness ==
    /\ agg.phase = "done"
    /\ Len(agg.days) = 2
    /\ agg.config.cap_hours_per_day = 4
    /\ Worked[1] = 6 /\ agg.days[1].hours = 4
    /\ Worked[2] = -2 /\ agg.days[2].hours = -2
    /\ agg.total_hours_counted = 2
    /\ agg.total_hours_worked = 4
    /\ agg.config.hourly_rate = 4 /\ agg.days[1].cost = 16

\* C15: with a per-invoice cap K > 0 and counted hours T > K the overage is
\* T - K, the overage discount is -(overage * rate) and K hours are billed;
\* with no cap, or T <= K, overage and discount are 0 and T hours are billed.
\* The difference and the product are those of f64.
C15_PerInvoiceCap ==
    TotalsComputed =>
      LET K == agg.config.cap_hours_per_invoice
          T == agg.total_hours_counted
      IN  IF K > 0 /\ T > K
          THEN /\ agg.overage_hours = RoundF64(T - K)
               /\ agg.overage_discount
                    = -RoundF64(agg.overage_hours * agg.config.hourly_rate)
               /\ agg.total_hours_billed = K
          ELSE /\ agg.overage_hours = 0
               /\ agg.overage_discount = 0
               /\ agg.total_hours_billed = T

\* the same with the billed hours as the code computes them: T less the
\* overage, which is K when T - K is exact in f64
C15_PerInvoiceCapAsComputed ==
    TotalsComputed =>
      LET K == agg.config.cap_hours_per_invoice
          T == agg.total_hours_counted
      IN  IF K > 0 /\ T > K
          THEN /\ agg.overage_hours = RoundF64(T - K)
               /\ agg.overage_discount
                    = -RoundF64(agg.overage_hours * agg.config.hourly_rate)
               /\ agg.total_hours_billed = RoundF64(T - agg.overage_hours)
               /\ RoundF64(T - K) = T - K => agg.total_hours_billed = K
          ELSE /\ agg.overage_hours = 0
               /\ agg.overage_discount = 0
               /\ agg.total_hours_billed = T

C15_Witness ==
    /\ agg.phase = "done"
    /\ agg.config.cap_hours_per_invoice = 6
    /\ agg.config.cap_hours_per_day = 0
    /\ agg.config.hourly_rate = 4
    /\ agg.total_hours_counted = 12
    /\ agg.overage_hours = 6
    /\ agg.overage_discount = -24
    /\ agg.total_hours_billed = 6

FeesOf == [date \in DOMAIN agg.store |-> SumFees(agg.store[date])]

DiscountsOf == [date \in DOMAIN agg.store |-> SumDiscounts(agg.store[date])]

\* C16: total_fixed_fees is the sum of the positive fixed costs of the store
\* and total_discounts the sum of the others, whatever the rate and the caps;
\* subtotal = billed_amount + fees + discounts, tax = subtotal * percent / 100
\* and total = subtotal + tax.
C16_InvoiceTotals ==
    TotalsComputed =>
      /\ agg.total_fees = SumOver(DOMAIN agg.store, FeesOf)
      /\ agg.total_discounts = SumOver(DOMAIN agg.store, DiscountsOf)
      /\ agg.billed_amount = agg.total_hours_billed * agg.config.hourly_rate
      /\ agg.subtotal_amount = agg.billed_amount + agg.total_fees + agg.total_discounts
      /\ agg.tax_amount * 100 = agg.subtotal_amount * agg.config.tax_percent
      /\ agg.total_amount = agg.subtotal_amount + agg.tax_amount

C16_Witness ==
    /\ agg.phase = "done"
    /\ agg.config.hourly_rate = 4
    /\ agg.config.cap_hours_per_day = 4
    /\ agg.config.cap_hours_per_invoice = 6
    /\ agg.config.tax_percent = 25
    /\ agg.total_hours_worked = 9
    /\ agg.total_hours_counted = 7
    /\ agg.total_fees = 16
    /\ agg.total_discounts = 0
    /\ agg.subtotal_amount = 40
    /\ agg.tax_amount = 10
    /\ agg.total_amount = 50

\* C26: the aggregation of every store under every configuration completes
\* with totals: the assertion that the f32 sum of the rows' hours equals
\* total_hours_counted holds, also when the per-day cap replaced a day's hours.
C26_AggregationTotal ==
    TotalsComputed =>
      /\ agg.phase = "done"
      /\ agg.total_hours = agg.total_hours_counted

\* C30: with hourly_rate >= 0 the totals satisfy counted <= worked,
\* billed <= counted, billed <= K under a per-invoice cap K > 0,
\* overage_hours >= 0, overage_discount <= 0 and
\* billed_amount = counted_amount + overage_discount, the sum being that of
\* f64.
C30_AggregationInvariants ==
    (TotalsComputed /\ agg.config.hourly_rate >= 0) =>
      /\ agg.total_hours_counted <= agg.total_hours_worked
      /\ agg.total_hours_billed <= agg.total_hours_counted
      /\ agg.config.cap_hours_per_invoice > 0
            => agg.total_hours_billed <= agg.config.cap_hours_per_invoice
      /\ agg.overage_hours >= 0
      /\ agg.overage_discount <= 0
      /\ agg.billed_amount = RoundF64(agg.counted_amount + agg.overage_discount)

\* the inequalities of C30 that no rounding breaks, and its other two
\* relations for the totals whose overage T - K is exact in f64 and whose
\* amounts are exact products
C30_InvariantsWhereExact ==
    (TotalsComputed /\ agg.config.hourly_rate >= 0) =>
      LET K == agg.config.cap_hours_per_invoice
          T == agg.total_hours_counted
          rate == agg.config.hourly_rate
      IN  /\ T <= agg.total_hours_worked
          /\ agg.total_hours_billed <= T
          /\ agg.overage_hours >= 0
          /\ agg.overage_discount <= 0
          /\ (K > 0 /\ (T <= K \/ RoundF64(T - K) = T - K))
                => agg.total_hours_billed <= K
          /\ (agg.overage_hours = 0
                \/ /\ RoundF64(T - K) = T - K
                   /\ agg.counted_amount = T * rate
                   /\ agg.overage_discount = -(agg.overage_hours * rate))
                => agg.billed_amount = agg.counted_amount + agg.overage_discount


====
